---- MODULE Spec2Model ----
(***************************************************************************)
(* Verification model of the forecasting core of opinet-oil-price-forecast *)
(*                                                                         *)
(*   SpecArima    forecasting/models/arima_model.py   ARIMAForecaster      *)
(*   SpecEnsemble backend/app/models/oil_price_forecaster.py               *)
(*   SpecBatch    backend/app/models/simple_forecaster.py                  *)
(*   SpecPrepare, SpecPreprocessor, SpecRescale                            *)
(*                forecasting/core/preprocessor.py, _prepare_series        *)
(*   SpecDecomposer, SpecScan   forecasting/analysis/decomposition.py      *)
(*   SpecOutlier  forecasting/analysis/outlier_detector.py                 *)
(*   SpecBacktest backend/app/models/improved_seven_day_forecaster.py      *)
(*   SpecUnits    two units of work on one forecaster instance             *)
(*   SpecCalc     regional_accuracy_calculator.py                          *)
(*                                                                         *)
(* Library calls (pmdarima, statsmodels, scikit-learn, keras) are the      *)
(* environment: whether one returns or raises is chosen with \E.           *)
(***************************************************************************)
EXTENDS Integers, Sequences, FiniteSets, TLC

VARIABLES
    \* ---- ARIMAForecaster (arima_model.py) ----
    config,          \* self.config: the ARIMAConfig fields fit() reads
    model,           \* self.model
    model_result,    \* self.model_result
    is_fitted,       \* self.is_fitted
    fitHistory,      \* history of fit calls: how many, how the last ended, any success
    lastCall,        \* the last fit/forecast call and what the caller got
    \* ---- OilPriceForecaster (oil_price_forecaster.py) ----
    TENSORFLOW_AVAILABLE,  \* module flag set by the import at lines 29-37
    models,          \* self.models: target -> names of the trained models
    scalers,         \* self.scalers: the keys present
    feature_importance,    \* self.feature_importance: the keys present
    model_performance,     \* self.model_performance: target -> name -> metrics
    fc,              \* the running forecast(df, horizon) call: position and locals
    lastPredict,     \* the last ensemble_predict call and its outcome
    lastForecast,    \* what the last forecast call gave its caller
    \* ---- SimpleOilPriceForecaster (simple_forecaster.py) ----
    batch,           \* the running generate_forecast call: position and locals
    lastBatch,       \* what the last generate_forecast call gave its caller
    \* ---- _prepare_series / _prepare_data (decomposition.py, arima_model.py) ----
    prep,            \* the last preparation call: its input, its outcome and
                     \* the series it returned, which the caller may hand back
    \* ---- DataPreprocessor (preprocessor.py) ----
    pre,             \* the last preprocess_data call: configuration, input frame
                     \* and result, and self.scalers
    \* ---- TimeSeriesDecomposer (decomposition.py) ----
    dec,             \* the last decompose_series or detect_structural_breaks
                     \* call: its arguments, what the libraries did, its result
    \* ---- OutlierDetector (outlier_detector.py) ----
    detector,        \* the last two detect_outliers calls on one series
    \* ---- ImprovedSevenDayForecaster (improved_seven_day_forecaster.py) ----
    backtest,        \* the last validate_seven_day_accuracy call: frame, passes, result
    \* ---- units of work sharing one forecaster ----
    units,           \* two (region, fuel_type) units: position, own data, report
    \* ---- TimeSeriesDecomposer break detectors (decomposition.py) ----
    scan,            \* the last call of one of the three break detectors
    \* ---- DataPreprocessor scaling (preprocessor.py) ----
    rescale,         \* the last _scale_data call and the inverse_transform after it
    \* ---- RegionalAccuracyCalculator (regional_accuracy_calculator.py) ----
    calc             \* forecast_data, actual_data, the prices entered so far and the last call

arimaVars == <<config, model, model_result, is_fitted, fitHistory, lastCall>>

ensembleVars == <<TENSORFLOW_AVAILABLE, models, scalers, feature_importance,
                  model_performance, fc, lastPredict, lastForecast>>

batchVars == <<batch, lastBatch>>

prepareVars == <<prep>>

preprocessorVars == <<pre>>

decomposerVars == <<dec>>

outlierVars == <<detector>>

backtestVars == <<backtest>>

unitsVars == <<units>>

scanVars == <<scan>>

rescaleVars == <<rescale>>

calcVars == <<calc>>

vars == <<arimaVars, ensembleVars, batchVars, prepareVars, preprocessorVars,
          decomposerVars, outlierVars,
          backtestVars,
          unitsVars,
          scanVars,
          rescaleVars,
          calcVars>>

\* the variables of the components an action of one component leaves alone
notArimaVars ==
    <<ensembleVars, batchVars, prepareVars, preprocessorVars, decomposerVars, outlierVars,
     backtestVars,
     unitsVars,
     scanVars,
     rescaleVars,
     calcVars>>
notEnsembleVars ==
    <<arimaVars, batchVars, prepareVars, preprocessorVars, decomposerVars, outlierVars,
     backtestVars,
     unitsVars,
     scanVars,
     rescaleVars,
     calcVars>>
notBatchVars ==
    <<arimaVars, ensembleVars, prepareVars, preprocessorVars, decomposerVars, outlierVars,
     backtestVars,
     unitsVars,
     scanVars,
     rescaleVars,
     calcVars>>
notPrepareVars ==
    <<arimaVars, ensembleVars, batchVars, preprocessorVars, decomposerVars, outlierVars,
     backtestVars,
     unitsVars,
     scanVars,
     rescaleVars,
     calcVars>>
notPreprocessorVars ==
    <<arimaVars, ensembleVars, batchVars, prepareVars, decomposerVars, outlierVars,
     backtestVars,
     unitsVars,
     scanVars,
     rescaleVars,
     calcVars>>
notDecomposerVars ==
    <<arimaVars, ensembleVars, batchVars, prepareVars, preprocessorVars, outlierVars,
     backtestVars,
     unitsVars,
     scanVars,
     rescaleVars,
     calcVars>>
notOutlierVars ==
    <<arimaVars, ensembleVars, batchVars, prepareVars, preprocessorVars, decomposerVars,
     backtestVars,
     unitsVars,
     scanVars,
     rescaleVars,
     calcVars>>
notBacktestVars ==
    <<arimaVars, ensembleVars, batchVars, prepareVars,
     preprocessorVars, decomposerVars, outlierVars,
     unitsVars,
     scanVars,
     rescaleVars,
     calcVars>>
notUnitsVars ==
    <<arimaVars, ensembleVars, batchVars, prepareVars,
     preprocessorVars, decomposerVars, outlierVars, backtestVars,
     scanVars,
     rescaleVars,
     calcVars>>
notScanVars ==
    <<arimaVars, ensembleVars, batchVars, prepareVars,
     preprocessorVars, decomposerVars, outlierVars, backtestVars,
     unitsVars,
     rescaleVars,
     calcVars>>
notRescaleVars ==
    <<arimaVars, ensembleVars, batchVars, prepareVars,
     preprocessorVars, decomposerVars, outlierVars, backtestVars,
     unitsVars, scanVars,
     calcVars>>
notCalcVars ==
    <<arimaVars, ensembleVars, batchVars, prepareVars,
     preprocessorVars, decomposerVars, outlierVars, backtestVars,
     unitsVars, scanVars, rescaleVars>>
\* what a step of a unit of work leaves alone besides the four dictionaries
besideUnitsVars ==
    <<TENSORFLOW_AVAILABLE, fc, lastPredict, lastForecast, arimaVars, batchVars,
     prepareVars, preprocessorVars, decomposerVars, outlierVars, backtestVars,
     scanVars,
     rescaleVars,
     calcVars>>

----------------------------------------------------------------------------
(* Bounds of the model *)

\* ARIMAConfig.max_p / max_d / max_q of the modelled configuration
MaxP == 1
MaxD == 1
MaxQ == 1
\* fit calls per behaviour
MaxFits == 2
\* forecast(steps): steps ranges over 1..MaxSteps
MaxSteps == 2

\* recorded MAE values range over 0..MaxMae
MaxMae == 1

\* generate_forecast loops over the first MaxRegions entries of self.regions
MaxRegions == 2

\* validate_seven_day_accuracy: the largest historical_days of a call
MaxHistoricalDays == 10

(* Program constants *)

\* prepare_ml_data: sequence_length
SequenceLength == 30
\* prepare_ml_data: default forecast_horizon, the one train_models uses
DefaultHorizon == 28
\* ensemble_predict: np.repeat(pred.reshape(-1, 1), 28, axis=1)
RepeatCount == 28

\* _prepare_data: fewer clean observations than this raises ValueError
MinObservations == 50

\* _prepare_series: fewer clean observations than this raises ValueError
DecomposerMinLength == 100
\* _advanced_decomposition smooths a residual longer than the filter window
SavgolWindow == 21
\* detect_outliers skips a series of fewer observations
OutlierMinLength == 30
\* the votes _ensemble_detection asks for when min_votes is not given
DefaultMinVotes == 2
\* the window of the weekly volatility, and the length of a run of changes
\* that _detect_consecutive_changes reports
RollingWindow == 7
ConsecutiveDays == 3

----------------------------------------------------------------------------
(* Exact rational arithmetic: <<numerator, denominator>> in lowest terms, *)
(* denominator > 0; stands for the float arithmetic of numpy.              *)
(* An operand is bound once, {... : a \in {x}}, so that it is computed     *)
(* once however often the result uses it.                                  *)

\* the element of a one-element set
Only(S) == CHOOSE r \in S : TRUE

RECURSIVE Gcd(_, _)
Gcd(a, b) == IF b = 0 THEN a ELSE Gcd(b, a % b)

Abs(x) == IF x < 0 THEN -x ELSE x

Rat(n, d) ==
    Only({ Only({ <<(IF q < 0 THEN -p ELSE p) \div g, Abs(q) \div g>> :
                  g \in {Gcd(Abs(p), Abs(q))} }) : p \in {n}, q \in {d} })

RInt(n) == <<n, 1>>
\* the operands are reduced by their common factors before they are
\* multiplied, to keep the products small
RAdd(x, y) ==
    Only({ Only({ Rat(a[1] * (b[2] \div g) + b[1] * (a[2] \div g),
                      (a[2] \div g) * b[2]) : g \in {Gcd(a[2], b[2])} })
           : a \in {x}, b \in {y} })
RSub(x, y) ==
    Only({ Only({ Rat(a[1] * (b[2] \div g) - b[1] * (a[2] \div g),
                      (a[2] \div g) * b[2]) : g \in {Gcd(a[2], b[2])} })
           : a \in {x}, b \in {y} })
RMul(x, y) ==
    Only({ Only({ Rat((a[1] \div g) * (b[1] \div h),
                      (a[2] \div h) * (b[2] \div g)) :
                  g \in {Gcd(Abs(a[1]), b[2])}, h \in {Gcd(Abs(b[1]), a[2])} })
           : a \in {x}, b \in {y} })
RDiv(x, y) ==
    Only({ IF b[1] = 0 THEN Rat(a[1] * b[2], 0)
           ELSE Only({ Rat((a[1] \div g) * (b[2] \div h),
                           (a[2] \div h) * (b[1] \div g)) :
                       g \in {Gcd(Abs(a[1]), Abs(b[1]))},
                       h \in {Gcd(a[2], b[2])} })
           : a \in {x}, b \in {y} })
RLeq(x, y) ==
    Only({ Only({ a[1] * (b[2] \div g) <= b[1] * (a[2] \div g) :
                  g \in {Gcd(a[2], b[2])} })
           : a \in {x}, b \in {y} })

\* the exact square root of a rational that has one
ISqrt(n) == CHOOSE r \in 0..n : r * r = n
RSqrt(x) == Only({<<ISqrt(a[1]), ISqrt(a[2])>> : a \in {x}})

\* the sequence f with every element computed (numpy arrays hold values)
Array(f) == f \o <<>>

RECURSIVE RSumFrom(_, _, _)
RSumFrom(seq, i, acc) ==
    IF i > Len(seq) THEN acc
    ELSE Only({RSumFrom(seq, j, a) : j \in {i + 1}, a \in {RAdd(acc, seq[i])}})

\* sum of a sequence of rationals
RSum(seq) == Only({RSumFrom(s, 1, RInt(0)) : s \in {Array(seq)}})

----------------------------------------------------------------------------
(* ARIMAForecaster: library objects *)

NoneObj == [kind |-> "None"]

\* (p, d, q) triples the order search ranges over
Grid == (0..MaxP) \X (0..MaxD) \X (0..MaxQ)

\* the fixed low order of the fallback and of the grid search's default
DefaultOrder == <<1, 1, 1>>

\* pmdarima model returned by auto_arima, created by fit call number id
AutoModel(order, seasonal, id) ==
    [kind |-> "auto_arima", order |-> order, seasonal |-> seasonal, id |-> id]

\* statsmodels ARIMA(series, order=..., seasonal_order=...) before .fit()
ArimaUnfitted(order, seasonal, id) ==
    [kind |-> "ARIMA", order |-> order, seasonal |-> seasonal, id |-> id]

\* statsmodels results object returned by ARIMA(...).fit()
ArimaResults(order, seasonal, id) ==
    [kind |-> "ARIMAResults", order |-> order, seasonal |-> seasonal, id |-> id]

\* ARIMAModelResult(model=self.model, order=order, seasonal_order=...)
ARIMAModelResult(m, order, seasonal_order) ==
    [kind |-> "ARIMAModelResult", model |-> m, order |-> order,
     seasonal_order |-> seasonal_order]

\* _get_seasonal_order: (1, 1, 1, seasonal_period); the period is not modelled
GetSeasonalOrder == "seasonal(1,1,1,period)"

NoSeasonal == "None"

----------------------------------------------------------------------------
(* ARIMAForecaster._prepare_data *)

\* the length check of _prepare_data on n non-missing observations
PrepareDataOk(n) == n >= MinObservations

----------------------------------------------------------------------------
(* ARIMAForecaster._manual_order_selection *)

GridSize == (MaxP + 1) * (MaxD + 1) * (MaxQ + 1)

\* the i-th candidate (from 0) of: for p ... for d ... for q ...
GridAt(i) ==
    << i \div ((MaxD + 1) * (MaxQ + 1)),
       (i \div (MaxQ + 1)) % (MaxD + 1),
       i % (MaxQ + 1) >>

\* "infinity" of best_aic / best_bic: above every score a candidate reports
InfScore == 99

\* the loop body from candidate i on; cand[c] = [ok, aic, bic] is what
\* ARIMA(series, order=c).fit() gives: ok = FALSE when it raises (continue)
RECURSIVE SelectionLoop(_, _, _)
SelectionLoop(i, cand, best) ==
    IF i >= GridSize THEN best
    ELSE LET c == GridAt(i)
             r == cand[c]
             afterAic == IF r.ok /\ r.aic < best.aic
                         THEN [best EXCEPT !.aic = r.aic, !.order_aic = c]
                         ELSE best
             afterBic == IF r.ok /\ r.bic < afterAic.bic
                         THEN [afterAic EXCEPT !.bic = r.bic, !.order_bic = c]
                         ELSE afterAic
         IN Only({ SelectionLoop(j, cand, b) : j \in {i + 1}, b \in {afterBic} })

ManualOrderSelection(cand, criterion) ==
    LET best == SelectionLoop(0, cand,
                    [aic |-> InfScore, bic |-> InfScore,
                     order_aic |-> DefaultOrder, order_bic |-> DefaultOrder])
    IN IF criterion = "aic" THEN best.order_aic ELSE best.order_bic

\* candidate outcomes the environment may produce: nothing fits, or candidate
\* w has the lowest AIC and the others either fail or fit with a lower BIC
AllFail == [c \in Grid |-> [ok |-> FALSE, aic |-> 0, bic |-> 0]]

CandWith(w, othersOk) ==
    [c \in Grid |-> IF c = w THEN [ok |-> TRUE, aic |-> 1, bic |-> 2]
                    ELSE [ok |-> othersOk, aic |-> 2, bic |-> 1]]

\* the first and the last candidate of the grid and the default order
Winners == {GridAt(0), DefaultOrder, GridAt(GridSize - 1)}

Candidates == {AllFail} \cup {CandWith(w, o) : w \in Winners, o \in BOOLEAN}

NoUsableCandidate(cand) == \A c \in Grid : ~cand[c].ok

----------------------------------------------------------------------------
(* ARIMAForecaster.fit *)

\* orders auto_arima may settle on
AutoOrders == {<<0, 1, 0>>, DefaultOrder, <<MaxP, MaxD, MaxQ>>}

\* series lengths (non-missing observations) handed to fit
SeriesLengths == {MinObservations - 1, MinObservations}

\* auto_select argument: None takes config.auto_arima
AutoSelect(arg) == IF arg = "None" THEN config.auto_arima ELSE arg = "True"

\* what one fit call leaves behind: raised, the three fields, the returned
\* result and whether the order search ended without a usable model
FitEnd(raised, m, mr, fitted, ret, searchFailed) ==
    [raised |-> raised, model |-> m, model_result |-> mr, is_fitted |-> fitted,
     ret |-> ret, searchFailed |-> searchFailed]

\* a variant of FinishFit that records the result and the fitted flag before
\* the diagnostics that may raise
FinishFitFlagFirst(m, order, seasonal_order, resultOk, searchFailed) ==
    LET mr == ARIMAModelResult(m, order, seasonal_order)
    IN FitEnd(~resultOk, m, mr, TRUE, IF resultOk THEN mr ELSE NoneObj, searchFailed)

\* lines 123-147: build ARIMAModelResult from self.model (already assigned
\* to m); resultOk = FALSE when an attribute read or the Ljung-Box test raises
FinishFit(m, order, seasonal_order, resultOk, searchFailed) ==
    IF resultOk
    THEN LET mr == ARIMAModelResult(m, order, seasonal_order)
         IN FitEnd(FALSE, m, mr, TRUE, mr, searchFailed)
    ELSE FitEnd(TRUE, m, model_result, is_fitted, NoneObj, searchFailed)

\* _auto_arima_selection: auto_arima, and on any exception ARIMA(1,1,1).fit();
\* an exception of that fallback fit leaves the function
AutoArimaSelection(autoOk, autoOrder, fallbackOk, id) ==
    IF autoOk
    THEN [raised |-> FALSE,
          model |-> AutoModel(autoOrder,
                              IF config.seasonal THEN "searched" ELSE NoSeasonal, id)]
    ELSE IF fallbackOk
         THEN [raised |-> FALSE, model |-> ArimaResults(DefaultOrder, NoSeasonal, id)]
         ELSE [raised |-> TRUE, model |-> NoneObj]

\* fit with auto_select true (lines 101-105, then 123-147)
FitAutoBranch(autoOk, autoOrder, fallbackOk, resultOk, id) ==
    LET sel == AutoArimaSelection(autoOk, autoOrder, fallbackOk, id)
    IN IF sel.raised
       THEN FitEnd(TRUE, model, model_result, is_fitted, NoneObj, ~autoOk)
       ELSE FinishFit(sel.model, sel.model.order, sel.model.seasonal,
                      resultOk, ~autoOk)

\* fit with auto_select false (lines 106-121, then 123-147)
FitManualBranch(cand, ctorOk, fitOk, resultOk, id) ==
    LET order == ManualOrderSelection(cand, config.information_criterion)
        seasonal_order == IF config.seasonal THEN GetSeasonalOrder ELSE NoSeasonal
        failed == NoUsableCandidate(cand)
    IN IF ~ctorOk
       THEN FitEnd(TRUE, model, model_result, is_fitted, NoneObj, failed)
       ELSE IF ~fitOk
            THEN FitEnd(TRUE, ArimaUnfitted(order, seasonal_order, id),
                        model_result, is_fitted, NoneObj, failed)
            ELSE FinishFit(ArimaResults(order, seasonal_order, id), order,
                           seasonal_order, resultOk, failed)

\* the caller's view of a call
CallRecord(op, outcome, ret, searchFailed, steps) ==
    [op |-> op, outcome |-> outcome, ret |-> ret,
     searchFailed |-> searchFailed, steps |-> steps]

AfterFit(end) ==
    /\ model' = end.model
    /\ model_result' = end.model_result
    /\ is_fitted' = end.is_fitted
    /\ fitHistory' = [count |-> fitHistory.count + 1,
                      last |-> IF end.raised THEN "raised" ELSE "ok",
                      everOk |-> fitHistory.everOk \/ ~end.raised]
    /\ lastCall' = CallRecord("fit", IF end.raised THEN "raised" ELSE "ok",
                              end.ret, end.searchFailed, 0)
    /\ UNCHANGED <<config, notArimaVars>>

\* fit on a series _prepare_data rejects: ValueError before the try block
FitTooShort ==
    /\ fitHistory.count < MaxFits
    /\ \E n \in SeriesLengths :
         /\ ~PrepareDataOk(n)
         /\ AfterFit(FitEnd(TRUE, model, model_result, is_fitted, NoneObj, FALSE))

FitAuto ==
    /\ fitHistory.count < MaxFits
    /\ \E n \in SeriesLengths, arg \in {"None", "True", "False"} :
         /\ PrepareDataOk(n)
         /\ AutoSelect(arg)
         /\ \E autoOk, fallbackOk, resultOk \in BOOLEAN, autoOrder \in AutoOrders :
              AfterFit(FitAutoBranch(autoOk, autoOrder, fallbackOk, resultOk,
                                     fitHistory.count + 1))

FitManual ==
    /\ fitHistory.count < MaxFits
    /\ \E n \in SeriesLengths, arg \in {"None", "True", "False"} :
         /\ PrepareDataOk(n)
         /\ ~AutoSelect(arg)
         /\ \E cand \in Candidates, ctorOk, fitOk, resultOk \in BOOLEAN :
              AfterFit(FitManualBranch(cand, ctorOk, fitOk, resultOk,
                                       fitHistory.count + 1))

\* ARIMAForecaster.fit
Fit == FitTooShort \/ FitAuto \/ FitManual

----------------------------------------------------------------------------
(* ARIMAForecaster.forecast *)

\* line 168: the fitted-state check
ForecastAccepted(fitted) == fitted

\* ARIMAForecastResult: the values come from self.model, the dates and the
\* model_info from self.model_result
ARIMAForecastResult(m, mr, steps) ==
    [kind |-> "ARIMAForecastResult", by |-> m, n |-> steps, ndates |-> steps,
     last_date_of |-> mr.model, order |-> mr.order]

\* lines 173-229: self.model.forecast(...) raises on None (no such attribute)
\* or when the library call fails (libOk = FALSE); self.model_result.model
\* raises on None
ForecastBody(steps, libOk) ==
    IF model = NoneObj \/ ~libOk \/ model_result = NoneObj
    THEN CallRecord("forecast", "raised", NoneObj, FALSE, steps)
    ELSE CallRecord("forecast", "ok",
                    ARIMAForecastResult(model, model_result, steps), FALSE, steps)

Forecast ==
    \E steps \in 1..MaxSteps, libOk \in BOOLEAN :
      /\ lastCall' =
           IF ~ForecastAccepted(is_fitted)
           THEN CallRecord("forecast", "raised", NoneObj, FALSE, steps)
           ELSE ForecastBody(steps, libOk)
      /\ UNCHANGED <<config, model, model_result, is_fitted, fitHistory, notArimaVars>>

----------------------------------------------------------------------------
(* OilPriceForecaster: data *)

\* for fuel_type in ['gasoline', 'diesel'] (line 418)
FuelTypes == <<"gasoline", "diesel">>

FuelSet == {FuelTypes[i] : i \in 1..Len(FuelTypes)}

\* dict order of the models train_models builds; "ridge" stands for any name
\* ensemble_predict does not know
ModelOrder == <<"random_forest", "gradient_boosting", "lstm", "ridge">>

ModelNames == {ModelOrder[i] : i \in 1..Len(ModelOrder)}

SklearnNames == {"random_forest", "gradient_boosting"}

\* the models a train_models run ends with (lines 306, 322, 325-354)
TrainedNames(tf) == SklearnNames \cup (IF tf THEN {"lstm"} ELSE {})

EmptyDict == [x \in {} |-> {}]

\* d with d[k] = v set
DictSet(d, k, v) == [x \in DOMAIN d \cup {k} |-> IF x = k THEN v ELSE d[x]]

\* recorded MAE values
MaeValues == 0..MaxMae

\* data frames handed to forecast: number of rows and the fuel columns present
DfLengths == {SequenceLength + DefaultHorizon - 1, SequenceLength + DefaultHorizon,
              SequenceLength + DefaultHorizon + 2}

DataFrames == [len : DfLengths, cols : {{"gasoline"}, FuelSet}]

\* requested horizons
Horizons == {7, DefaultHorizon, DefaultHorizon + 3}

\* what the models' predict calls return: one value per sklearn model, an
\* alternating two-level row for the LSTM (its standard deviation is rational)
ValueProfiles ==
    { [rf |-> 10, gb |-> 14, lstm |-> <<10, 14>>],
      [rf |-> 14, gb |-> 10, lstm |-> <<12, 12>>] }

----------------------------------------------------------------------------
(* OilPriceForecaster.prepare_ml_data *)

\* number of sequences: len(range(sequence_length, len(X) - forecast_horizon + 1))
PrepareMlDataCount(len, forecast_horizon) ==
    LET n == len - forecast_horizon + 1 - SequenceLength
    IN IF n > 0 THEN n ELSE 0

----------------------------------------------------------------------------
(* OilPriceForecaster.train_models *)

\* int(len(X) * 0.8)
SplitIdx(n) == (n * 8) \div 10

TrainStages == {"ok", "scale", "rf", "later"}

\* the MAE each model scores on the test split
MaeProfiles ==
    { [m \in ModelNames \ {"ridge"} |-> IF m = "random_forest" THEN 0 ELSE MaxMae],
      [m \in ModelNames \ {"ridge"} |-> IF m = "random_forest" THEN MaxMae ELSE 0] }

\* env.stage: where a library call raises ("ok": none does); env.mae: the scores
TrainEnvs == [stage : TrainStages, mae : MaeProfiles]

TrainEnd(raised, ret, ms, sc, fi, perf) ==
    [raised |-> raised, ret |-> ret, models |-> ms, scalers |-> sc,
     feature_importance |-> fi, model_performance |-> perf]

TrainModels(len, target_col, env) ==
    LET n == PrepareMlDataCount(len, DefaultHorizon)
        sc == scalers \cup {<<target_col, "X">>, <<target_col, "y">>}
        fi == feature_importance \cup {<<target_col, "rf">>}
        names == TrainedNames(TENSORFLOW_AVAILABLE)
    IN IF n = 0
       THEN TrainEnd(FALSE, {}, models, scalers, feature_importance, model_performance)
       ELSE IF SplitIdx(n) = 0 \/ env.stage = "scale"
       THEN \* StandardScaler on an empty training split, or any failure before line 284
            TrainEnd(TRUE, {}, models, scalers, feature_importance, model_performance)
       ELSE IF env.stage = "rf"
       THEN TrainEnd(TRUE, {}, models, sc, feature_importance, model_performance)
       ELSE IF env.stage = "later"
       THEN TrainEnd(TRUE, {}, models, sc, fi, model_performance)
       ELSE TrainEnd(FALSE, names,
                     DictSet(models, target_col, names), sc, fi,
                     DictSet(model_performance, target_col,
                             [m \in names |-> [mae |-> env.mae[m]]]))

----------------------------------------------------------------------------
(* OilPriceForecaster.ensemble_predict *)

\* np.repeat(pred.reshape(-1, 1), 28, axis=1): one row of 28 equal values
Repeat(v) == Array([k \in 1..RepeatCount |-> RInt(v)])

\* the LSTM's row: Dense(forecast_horizon) outputs, forecast_horizon being
\* y_train.shape[1], the default horizon of prepare_ml_data
LstmOutput(ab) ==
    Array([k \in 1..DefaultHorizon |-> RInt(IF k % 2 = 1 THEN ab[1] ELSE ab[2])])

\* lines 394-400: the weight before normalisation
RawWeight(perf, target_col, model_name) ==
    IF target_col \in DOMAIN perf
    THEN LET mae == IF model_name \in DOMAIN perf[target_col]
                    THEN perf[target_col][model_name].mae
                    ELSE 1
         IN RDiv(RInt(1), RAdd(RInt(1), RInt(mae)))
    ELSE RInt(1)

\* a variant of Normalize that divides by the number of weights
NormalizeByCount(w) ==
    Only({Array([i \in 1..Len(raw) |-> RDiv(raw[i], RInt(Len(raw)))]) : raw \in {w}})

\* line 407: weights / weights.sum()
Normalize(w) ==
    Only({Array([i \in 1..Len(raw) |-> RDiv(raw[i], total)]) :
          raw \in {w}, total \in {RSum(w)}})

\* np.average(predictions, axis=0, weights=weights), one row
Average(preds, w) ==
    Only({Array([k \in 1..Len(ps[1]) |->
                  RDiv(RSum([i \in 1..Len(ps) |-> RMul(ws[i], ps[i][k])]), total)]) :
          ps \in {preds}, ws \in {w}, total \in {RSum(w)}})

\* env.values: what each predict returns; env.raiseAt: the model whose predict
\* raises, or "none"
PredictEnvs == [values : ValueProfiles, raiseAt : (ModelNames \ {"ridge"}) \cup {"none"}]

\* the loop of lines 371-400 from position i of the dict order on
RECURSIVE PredictLoop(_, _, _, _, _, _, _)
PredictLoop(i, ms, target_col, perf, sc, env, acc) ==
    IF i > Len(ModelOrder) THEN acc
    ELSE LET name == ModelOrder[i]
             weight == RawWeight(perf, target_col, name)
             add(pred) == [acc EXCEPT !.names = Append(@, name),
                                      !.preds = Append(@, pred),
                                      !.raw = Append(@, weight)]
             raise == [acc EXCEPT !.raised = TRUE, !.failed = name]
         IN IF name \notin ms
            THEN PredictLoop(i + 1, ms, target_col, perf, sc, env, acc)
            ELSE IF name \in SklearnNames
            THEN IF env.raiseAt = name THEN raise
                 ELSE PredictLoop(i + 1, ms, target_col, perf, sc, env,
                          add(Repeat(IF name = "random_forest"
                                     THEN env.values.rf ELSE env.values.gb)))
            ELSE IF name = "lstm" /\ TENSORFLOW_AVAILABLE
            THEN IF <<target_col, "X">> \notin sc \/ env.raiseAt = name
                 THEN raise
                 ELSE PredictLoop(i + 1, ms, target_col, perf, sc, env,
                                  add(LstmOutput(env.values.lstm)))
            ELSE PredictLoop(i + 1, ms, target_col, perf, sc, env, acc)

\* ensemble_predict(models, X_new, target_col) with self.model_performance =
\* perf and self.scalers = sc: outcome "returned" with prediction <<>>
\* (np.array([])) or <<row>> (shape (1, 28)), or "raised"
EnsemblePredict(ms, target_col, perf, sc, env) ==
    LET acc == PredictLoop(1, ms, target_col, perf, sc, env,
                   [names |-> <<>>, preds |-> <<>>, raw |-> <<>>,
                    raised |-> FALSE, failed |-> "none"])
        base == [target |-> target_col, given |-> ms, names |-> acc.names,
                 preds |-> acc.preds, raw |-> acc.raw, failed |-> acc.failed]
    IN IF acc.raised
       THEN [outcome |-> "raised", weights |-> <<>>, prediction |-> <<>>] @@ base
       ELSE IF acc.preds = <<>>
       THEN [outcome |-> "returned", weights |-> <<>>, prediction |-> <<>>] @@ base
       ELSE LET w == Normalize(acc.raw)
            IN [outcome |-> "returned", weights |-> w,
                prediction |-> <<Average(acc.preds, w)>>] @@ base

NoPredict ==
    [outcome |-> "none", weights |-> <<>>, prediction |-> <<>>, target |-> "none",
     given |-> {}, names |-> <<>>, preds |-> <<>>, raw |-> <<>>, failed |-> "none"]

----------------------------------------------------------------------------
(* OilPriceForecaster._calculate_confidence_intervals *)

\* np.std(predictions): population standard deviation
Std(row) ==
    Only({ Only({ RSqrt(RDiv(RSum([k \in 1..Len(r) |->
                                     RMul(RSub(r[k], mean), RSub(r[k], mean))]),
                             RInt(Len(r)))) :
                  mean \in {RDiv(RSum(r), RInt(Len(r)))} }) : r \in {row} })

\* margin = 1.96 * std
Margin(row) == RMul(Rat(196, 100), Std(row))

CalculateConfidenceIntervals(row) ==
    Only({ [lower |-> Array([k \in 1..Len(r) |-> RSub(r[k], margin)]),
            upper |-> Array([k \in 1..Len(r) |-> RAdd(r[k], margin)])] :
           r \in {row}, margin \in {Margin(row)} })

----------------------------------------------------------------------------
(* OilPriceForecaster.forecast *)

\* pd.date_range(start=last_date + 1 day, periods=forecast_horizon): day offsets
ForecastDates(forecast_horizon) == Array([k \in 1..forecast_horizon |-> k])

\* lines 451-457: the entry of one fuel type
ForecastEntry(prediction, forecast_horizon) ==
    Only({ [dates |-> ForecastDates(forecast_horizon),
            prices |-> prediction[1],
            lower |-> ci.lower,
            upper |-> ci.upper] :
           ci \in {CalculateConfidenceIntervals(prediction[1])} })

\* pc: "idle" (no call running), "loop" (inside forecast), "done" (a call has
\* ended and its caller holds what it gave)
FcIdle == [pc |-> "idle", df |-> [len |-> 0, cols |-> {}], horizon |-> 0,
           i |-> 0, forecasts |-> EmptyDict]

FcDone == [FcIdle EXCEPT !.pc = "done"]

NoForecast == [outcome |-> "none", horizon |-> 0, forecasts |-> EmptyDict]

\* forecast(df, forecast_horizon) is entered: forecasts = {}
ForecastStart ==
    /\ fc.pc = "idle"
    /\ \E df \in DataFrames, h \in Horizons :
         fc' = [pc |-> "loop", df |-> df, horizon |-> h, i |-> 1,
                forecasts |-> EmptyDict]
    /\ UNCHANGED <<TENSORFLOW_AVAILABLE, models, scalers, feature_importance,
                   model_performance, lastPredict, lastForecast, notEnsembleVars>>

\* the call is left by an exception: nothing is returned
ForecastAborts(tr, pred) ==
    /\ fc' = FcDone
    /\ lastPredict' = pred
    /\ lastForecast' = [outcome |-> "raised", horizon |-> fc.horizon,
                        forecasts |-> EmptyDict]
    /\ models' = tr.models
    /\ scalers' = tr.scalers
    /\ feature_importance' = tr.feature_importance
    /\ model_performance' = tr.model_performance

\* the loop goes on to the next fuel type
ForecastContinues(tr, pred, forecasts) ==
    /\ fc' = [fc EXCEPT !.i = @ + 1, !.forecasts = forecasts]
    /\ lastPredict' = pred
    /\ UNCHANGED lastForecast
    /\ models' = tr.models
    /\ scalers' = tr.scalers
    /\ feature_importance' = tr.feature_importance
    /\ model_performance' = tr.model_performance

\* one pass of the loop body, lines 418-457, for fuel type number fc.i
ForecastFuel ==
    /\ fc.pc = "loop"
    /\ fc.i <= Len(FuelTypes)
    /\ UNCHANGED <<TENSORFLOW_AVAILABLE, notEnsembleVars>>
    /\ LET fuel_type == FuelTypes[fc.i]
           same == TrainEnd(FALSE, {}, models, scalers, feature_importance,
                            model_performance)
       IN IF fuel_type \notin fc.df.cols
          THEN ForecastContinues(same, lastPredict, fc.forecasts)
          ELSE \E tenv \in TrainEnvs :
                 LET tr == TrainModels(fc.df.len, fuel_type, tenv)
                 IN IF tr.raised
                    THEN ForecastAborts(tr, lastPredict)
                    ELSE IF tr.ret = {}
                            \/ PrepareMlDataCount(fc.df.len, fc.horizon) = 0
                    THEN ForecastContinues(tr, lastPredict, fc.forecasts)
                    ELSE \E penv \in PredictEnvs :
                           \* ensemble_predict reads the fields train_models left
                           LET pred == EnsemblePredict(tr.ret, fuel_type,
                                           tr.model_performance, tr.scalers, penv)
                           IN IF pred.outcome = "raised"
                              THEN ForecastAborts(tr, pred)
                              ELSE IF Len(pred.prediction) > 0
                              THEN ForecastContinues(tr, pred,
                                       DictSet(fc.forecasts, fuel_type,
                                           ForecastEntry(pred.prediction, fc.horizon)))
                              ELSE ForecastContinues(tr, pred, fc.forecasts)

\* return forecasts (line 459)
ForecastReturn ==
    /\ fc.pc = "loop"
    /\ fc.i > Len(FuelTypes)
    /\ fc' = FcDone
    /\ lastForecast' = [outcome |-> "returned", horizon |-> fc.horizon,
                        forecasts |-> fc.forecasts]
    /\ UNCHANGED <<TENSORFLOW_AVAILABLE, models, scalers, feature_importance,
                   model_performance, lastPredict, notEnsembleVars>>

----------------------------------------------------------------------------
(* OilPriceForecaster: calls from outside forecast *)

\* ensemble_predict called directly with a dict of fitted models
EnsemblePredictCall ==
    /\ fc.pc = "idle"
    /\ \E ms \in SUBSET ModelNames, target_col \in FuelSet, penv \in PredictEnvs :
         lastPredict' = EnsemblePredict(ms, target_col, model_performance,
                                        scalers, penv)
    /\ fc' = FcDone
    /\ UNCHANGED <<TENSORFLOW_AVAILABLE, models, scalers, feature_importance,
                   model_performance, lastForecast, notEnsembleVars>>

\* load_model(filepath): the four fields are replaced by those save_model
\* pickled, here the fields of a forecaster that trained the targets of
\* `trained` where TensorFlow was or was not available
LoadModel ==
    /\ fc.pc = "idle"
    /\ \E trained \in (SUBSET FuelSet) \ {{}}, tf \in BOOLEAN, mae \in MaeValues :
         /\ models' = [t \in trained |-> TrainedNames(tf)]
         /\ scalers' = {<<t, x>> : t \in trained, x \in {"X", "y"}}
         /\ feature_importance' = {<<t, "rf">> : t \in trained}
         /\ model_performance' =
                [t \in trained |-> [m \in TrainedNames(tf) |-> [mae |-> mae]]]
    /\ UNCHANGED <<TENSORFLOW_AVAILABLE, fc, lastPredict, lastForecast,
                   notEnsembleVars>>

\* the caller is done with what the last call gave it
ResultConsumed ==
    /\ fc.pc = "done"
    /\ fc' = FcIdle
    /\ lastPredict' = NoPredict
    /\ lastForecast' = NoForecast
    /\ UNCHANGED <<TENSORFLOW_AVAILABLE, models, scalers, feature_importance,
                   model_performance, notEnsembleVars>>

----------------------------------------------------------------------------
(* SimpleOilPriceForecaster: data *)

\* forecast_region_fuel: if len(recent_data) < 5 (line 156)
MinRows == 5
\* calculate_trend(prices, days=30) (line 100)
TrendDays == 30
\* region_fuel_data.tail(90) (line 155)
RecentDays == 90
\* generate_forecast(forecast_days=28) (line 277)
DefaultForecastDays == 28

\* self.regions, by position in the list
Regions == 1..MaxRegions

\* the (region, fuel_type) units in the order of the two loops of
\* generate_forecast
NumUnits == MaxRegions * Len(FuelTypes)
UnitRegion(k) == ((k - 1) \div Len(FuelTypes)) + 1
UnitFuel(k) == FuelTypes[((k - 1) % Len(FuelTypes)) + 1]

\* rows of df for one (region, fuel_type), and whether a price among them is
\* NaN (a null price of the JSON file)
RowCounts == {0, MinRows - 1, MinRows, TrendDays}
ForecastDaysSet == {7, DefaultForecastDays}

TailLen(rows, n) == IF rows < n THEN rows ELSE n

----------------------------------------------------------------------------
(* SimpleOilPriceForecaster.calculate_trend *)

\* LinearRegression.fit raises on a NaN target
CalculateTrend(len, nan) ==
    IF len < TrendDays THEN [outcome |-> "ok", trend |-> "zero"]
    ELSE IF nan THEN [outcome |-> "raised", trend |-> "none"]
    ELSE [outcome |-> "ok", trend |-> "slope"]

----------------------------------------------------------------------------
(* SimpleOilPriceForecaster.forecast_region_fuel *)

ForecastRegionFuel(region, fuel_type, rows, nan, forecast_days) ==
    IF rows = 0 THEN [outcome |-> "ok", ret |-> NoneObj]
    ELSE IF TailLen(rows, RecentDays) < MinRows THEN [outcome |-> "ok", ret |-> NoneObj]
    ELSE LET t == CalculateTrend(TailLen(rows, RecentDays), nan)
         IN IF t.outcome = "raised" THEN [outcome |-> "raised", ret |-> NoneObj]
            ELSE [outcome |-> "ok",
                  ret |-> [kind |-> "forecast", region |-> region,
                           fuel_type |-> fuel_type, trend |-> t.trend,
                           forecasts |-> forecast_days]]

----------------------------------------------------------------------------
(* SimpleOilPriceForecaster.calculate_national_average *)

\* the fuel types for which some region has a forecast
CalculateNationalAverage(regional_forecasts) ==
    {f \in FuelSet : \E r \in DOMAIN regional_forecasts :
                        f \in DOMAIN regional_forecasts[r]}

----------------------------------------------------------------------------
(* SimpleOilPriceForecaster.generate_forecast *)

BatchIdle == [pc |-> "idle", k |-> 0, forecast_days |-> 0,
              forecasts |-> EmptyDict, total_forecasts |-> 0]
BatchDone == [BatchIdle EXCEPT !.pc = "done"]
NoBatch == [outcome |-> "none", result |-> NoneObj, attempted |-> 0, failed |-> 0]

\* lines 282-298: load the data; an empty frame ends the call with {}
GenerateForecastStart ==
    /\ batch.pc = "idle"
    /\ lastBatch = NoBatch
    /\ \E forecast_days \in ForecastDaysSet, dfEmpty \in BOOLEAN :
          IF dfEmpty
          THEN /\ batch' = BatchDone
               /\ lastBatch' = [outcome |-> "returned", result |-> EmptyDict,
                                attempted |-> 0, failed |-> 0]
          ELSE /\ batch' = [BatchIdle EXCEPT !.pc = "loop", !.k = 1,
                                             !.forecast_days = forecast_days]
               /\ UNCHANGED lastBatch
    /\ UNCHANGED notBatchVars

\* results['forecasts'][region] = {} at the first fuel type of a region
RegionOpened(forecasts, k) ==
    IF UnitRegion(k) \in DOMAIN forecasts THEN forecasts
    ELSE forecasts @@ (UnitRegion(k) :> EmptyDict)

\* one pass of the loop body, lines 303-313
ForecastUnit ==
    /\ batch.pc = "loop"
    /\ batch.k <= NumUnits
    /\ \E rows \in RowCounts, nan \in BOOLEAN :
          LET region == UnitRegion(batch.k)
              fuel_type == UnitFuel(batch.k)
              opened == RegionOpened(batch.forecasts, batch.k)
              r == ForecastRegionFuel(region, fuel_type, rows, nan,
                                      batch.forecast_days)
          IN IF r.outcome = "raised"
             THEN /\ batch' = BatchDone
                  /\ lastBatch' = [outcome |-> "raised", result |-> NoneObj,
                                   attempted |-> batch.k, failed |-> batch.k]
             ELSE /\ batch' =
                        IF r.ret # NoneObj
                        THEN [batch EXCEPT
                                 !.k = @ + 1,
                                 !.forecasts = [opened EXCEPT ![region] =
                                                   @ @@ (fuel_type :> r.ret)],
                                 !.total_forecasts = @ + 1]
                        ELSE [batch EXCEPT !.k = @ + 1, !.forecasts = opened]
                  /\ UNCHANGED lastBatch
    /\ UNCHANGED notBatchVars

\* lines 315-320, after the last unit
GenerateForecastReturn ==
    /\ batch.pc = "loop"
    /\ batch.k > NumUnits
    /\ lastBatch' =
          [outcome |-> "returned",
           result |-> [metadata |-> [forecast_horizon_days |-> batch.forecast_days,
                                     fuel_types |-> FuelTypes],
                       forecasts |-> batch.forecasts,
                       national_average |->
                           CalculateNationalAverage(batch.forecasts)],
           attempted |-> NumUnits, failed |-> 0]
    /\ batch' = BatchDone
    /\ UNCHANGED notBatchVars

\* the caller is done with the result of the last call
BatchResultConsumed ==
    /\ batch.pc = "done"
    /\ batch' = BatchIdle
    /\ lastBatch' = NoBatch
    /\ UNCHANGED notBatchVars

----------------------------------------------------------------------------
(* pandas Series: positions 1..n, an index label and a value per position; *)
(* a value is a rational or NaN                                            *)

NaN == <<0, 0>>
IsNaN(v) == v[2] = 0

RLess(x, y) == ~RLeq(y, x)

EmptySeries == [index |-> <<>>, values |-> <<>>]

\* the rows of s at the positions pos, in that order
Rows(s, pos) ==
    [index |-> Array([k \in 1..Len(pos) |-> s.index[pos[k]]]),
     values |-> Array([k \in 1..Len(pos) |-> s.values[pos[k]]])]

\* Series.dropna()
Dropna(s) ==
    Rows(s, SelectSeq([i \in 1..Len(s.values) |-> i],
                      LAMBDA i : ~IsNaN(s.values[i])))

\* the k-th smallest value (from 0) of a sequence without NaN
KthSmallest(vals, k) ==
    CHOOSE v \in {vals[i] : i \in 1..Len(vals)} :
        /\ Cardinality({i \in 1..Len(vals) : RLess(vals[i], v)}) <= k
        /\ k < Cardinality({i \in 1..Len(vals) : RLeq(vals[i], v)})

\* Series.quantile(qn / qd), linear interpolation between the two order
\* statistics around position (n - 1) * q
Quantile(vals, qn, qd) ==
    LET pos == (Len(vals) - 1) * qn
        lo == pos \div qd
        frac == Rat(pos % qd, qd)
    IN IF frac = RInt(0) THEN KthSmallest(vals, lo)
       ELSE Only({ RAdd(a, RMul(frac, RSub(b, a))) :
                   a \in {KthSmallest(vals, lo)},
                   b \in {KthSmallest(vals, lo + 1)} })

\* Series.clip(lower, upper)
Clip(vals, lower, upper) ==
    Array([i \in 1..Len(vals) |->
              IF RLess(vals[i], lower) THEN lower
              ELSE IF RLess(upper, vals[i]) THEN upper
              ELSE vals[i]])

----------------------------------------------------------------------------
(* TimeSeriesDecomposer._prepare_series and ARIMAForecaster._prepare_data: *)
(* the same body, with the minimum lengths 100 and 50                      *)

Prepare(s, min_length) ==
    Only({ IF Len(clean.values) < min_length
           THEN [outcome |-> "raised", series |-> EmptySeries]
           ELSE [outcome |-> "returned",
                 series |-> [index |-> clean.index,
                             values |-> Only({ Clip(clean.values, q01, q99) :
                                   q99 \in {Quantile(clean.values, 99, 100)},
                                   q01 \in {Quantile(clean.values, 1, 100)} })]]
           : clean \in {Dropna(s)} })

\* TimeSeriesDecomposer._prepare_series
PrepareSeries(s) == Prepare(s, DecomposerMinLength)

\* ARIMAForecaster._prepare_data
PrepareData(s) == Prepare(s, MinObservations)

Preparers == {"_prepare_series", "_prepare_data"}

MinLengthOf(who) ==
    IF who = "_prepare_series" THEN DecomposerMinLength ELSE MinObservations

\* input series: n observations of one of three shapes, the index in order,
\* with a repeated label or with two labels out of order, a NaN row in front
Shapes == {"constant", "ramp", "spikes"}
IndexKinds == {"sorted", "duplicate", "unsorted"}

ShapeValue(shape, i, n) ==
    IF shape = "constant" THEN 10
    ELSE IF shape = "ramp" THEN i
    ELSE IF i = 1 THEN 0 ELSE IF i = n THEN 50 ELSE 10

IndexLabel(kind, i) ==
    IF kind = "duplicate" /\ i = 2 THEN 1
    ELSE IF kind = "unsorted" /\ i <= 2 THEN 3 - i
    ELSE i

MakeSeries(shape, kind, n, nans) ==
    [index |-> [i \in 1..(n + nans) |-> IndexLabel(kind, i)],
     values |-> [i \in 1..(n + nans) |->
                    IF i <= nans THEN NaN ELSE RInt(ShapeValue(shape, i - nans, n))]]

NonMissing(s) == Cardinality({i \in 1..Len(s.values) : ~IsNaN(s.values[i])})

PrepIdle == [pc |-> "idle", who |-> "none", input |-> EmptySeries,
             outcome |-> "none", output |-> EmptySeries,
             first |-> EmptySeries, passes |-> 0]

\* a caller prepares a series
PrepareCall ==
    /\ prep.pc = "idle"
    /\ \E who \in Preparers, shape \in Shapes, kind \in IndexKinds,
          d \in {-1, 0, 1}, nans \in {0, 1} :
          LET s == MakeSeries(shape, kind, MinLengthOf(who) + d, nans)
              r == IF who = "_prepare_series" THEN PrepareSeries(s)
                   ELSE PrepareData(s)
          IN prep' = [pc |-> "done", who |-> who, input |-> s,
                      outcome |-> r.outcome, output |-> r.series,
                      first |-> r.series, passes |-> 1]
    /\ UNCHANGED notPrepareVars

\* the caller prepares the prepared series once more
PrepareAgain ==
    /\ prep.pc = "done"
    /\ prep.outcome = "returned"
    /\ prep.passes = 1
    /\ LET r == IF prep.who = "_prepare_series" THEN PrepareSeries(prep.output)
                ELSE PrepareData(prep.output)
       IN prep' = [prep EXCEPT !.outcome = r.outcome, !.output = r.series,
                               !.passes = 2]
    /\ UNCHANGED notPrepareVars

\* the caller is done with the prepared series
PrepareConsumed ==
    /\ prep.pc = "done"
    /\ prep' = PrepIdle
    /\ UNCHANGED notPrepareVars

----------------------------------------------------------------------------
(* DataPreprocessor: data *)
(* A frame has a date per row (a day number; day 1 is a 1 January), one    *)
(* target column and the names of its columns. The COVID period of the     *)
(* configuration is the two days after the first month, so that a frame of *)
(* some sixty days has more than 30 rows on either side of it.             *)

\* config.covid_start, config.covid_end as day numbers
CovidStartDay == 32
CovidEndDay == 33

\* _handle_covid_period: more than 30 rows before and after (line 149), the
\* mean of the 30 nearest rows (lines 151-152)
CovidTrendRows == 30

SetMax(S) == CHOOSE x \in S : \A y \in S : y <= x
SetMin(S) == CHOOSE x \in S : \A y \in S : x <= y

\* DatetimeIndex.dayofweek and .month of a day number
DayOfWeek(d) == d % 7
MonthOf(d) == IF d <= 31 THEN 1 ELSE IF d <= 59 THEN 2 ELSE 3

\* the positions of seq, in order, that satisfy Test
PositionsWhere(n, Test(_)) == SelectSeq([i \in 1..n |-> i], Test)

\* Series.mean(): the mean of the values that are not NaN, NaN if none
MeanSkipNa(vals) ==
    Only({ IF Len(ok) = 0 THEN NaN
           ELSE RDiv(RSum([k \in 1..Len(ok) |-> vals[ok[k]]]), RInt(Len(ok)))
           : ok \in {PositionsWhere(Len(vals), LAMBDA i : ~IsNaN(vals[i]))} })

\* Series.interpolate(method='linear'): by position, between the nearest
\* valid neighbours; after the last valid value that value; before the first
\* valid value nothing
Interpolate(vals) ==
    Array([i \in 1..Len(vals) |->
        IF ~IsNaN(vals[i]) THEN vals[i]
        ELSE LET before == {j \in 1..(i - 1) : ~IsNaN(vals[j])}
                 after == {j \in (i + 1)..Len(vals) : ~IsNaN(vals[j])}
             IN IF before = {} THEN NaN
                ELSE IF after = {} THEN vals[SetMax(before)]
                ELSE Only({ RAdd(vals[p],
                                 RMul(RSub(vals[q], vals[p]), Rat(i - p, q - p)))
                            : p \in {SetMax(before)}, q \in {SetMin(after)} })])

\* fillna(method='bfill') then fillna(method='ffill')
BfillFfill(vals) ==
    Array([i \in 1..Len(vals) |->
        IF ~IsNaN(vals[i]) THEN vals[i]
        ELSE LET before == {j \in 1..(i - 1) : ~IsNaN(vals[j])}
                 after == {j \in (i + 1)..Len(vals) : ~IsNaN(vals[j])}
             IN IF after # {} THEN vals[SetMin(after)]
                ELSE IF before # {} THEN vals[SetMax(before)]
                ELSE NaN])

\* np.linspace(a, b, n)
Linspace(a, b, n) ==
    Array([k \in 1..n |->
        IF IsNaN(a) \/ IsNaN(b) THEN NaN
        ELSE IF n = 1 THEN a
        ELSE RAdd(a, RMul(RSub(b, a), Rat(k - 1, n - 1)))])

Frame(index, values, columns) ==
    [index |-> index, values |-> values, columns |-> columns]

----------------------------------------------------------------------------
(* DataPreprocessor._setup_date_index *)

\* lines 107-112: sort by date, one row per date with the mean of its rows;
\* lines 115-116: one row for every day from the first to the last date
SetupDateIndex(df) ==
    LET days == {df.index[i] : i \in 1..Len(df.index)}
        first == SetMin(days)
        last == SetMax(days)
        GroupMean(d) ==
            MeanSkipNa([k \in 1..Len(PositionsWhere(Len(df.index),
                                        LAMBDA i : df.index[i] = d)) |->
                df.values[PositionsWhere(Len(df.index),
                                         LAMBDA i : df.index[i] = d)[k]]])
    IN Frame(Array([k \in 1..(last - first + 1) |-> first + k - 1]),
             Array([k \in 1..(last - first + 1) |->
                      IF (first + k - 1) \in days THEN GroupMean(first + k - 1)
                      ELSE NaN]),
             df.columns \ {"date"})

----------------------------------------------------------------------------
(* DataPreprocessor._handle_covid_period *)

InCovid(d) == CovidStartDay <= d /\ d <= CovidEndDay

\* the last n elements and the first n elements of a sequence
TailRows(seq, n) == IF Len(seq) <= n THEN seq ELSE SubSeq(seq, Len(seq) - n + 1, Len(seq))
HeadRows(seq, n) == IF Len(seq) <= n THEN seq ELSE SubSeq(seq, 1, n)

HandleCovidPeriod(df, covid_handling) ==
    LET n == Len(df.index)
        covid == PositionsWhere(n, LAMBDA i : InCovid(df.index[i]))
        others == PositionsWhere(n, LAMBDA i : ~InCovid(df.index[i]))
        pre_covid == PositionsWhere(n, LAMBDA i : df.index[i] < CovidStartDay)
        post_covid == PositionsWhere(n, LAMBDA i : df.index[i] > CovidEndDay)
    IN IF Len(covid) = 0 THEN [data |-> df, method |-> "no_covid_data"]
       ELSE IF covid_handling = "remove"
       THEN [data |-> Frame(Array([k \in 1..Len(others) |-> df.index[others[k]]]),
                            Array([k \in 1..Len(others) |-> df.values[others[k]]]),
                            df.columns),
             method |-> "removed"]
       ELSE IF covid_handling = "interpolate"
       THEN [data |->
               IF Len(pre_covid) > CovidTrendRows /\ Len(post_covid) > CovidTrendRows
               THEN LET pre_trend == MeanSkipNa(TailRows(
                              [k \in 1..Len(pre_covid) |-> df.values[pre_covid[k]]], CovidTrendRows))
                        post_trend == MeanSkipNa(HeadRows(
                              [k \in 1..Len(post_covid) |-> df.values[post_covid[k]]], CovidTrendRows))
                        line == Linspace(pre_trend, post_trend, Len(covid))
                    IN Frame(df.index,
                             Array([i \in 1..n |->
                                 IF InCovid(df.index[i])
                                 THEN line[i - Len(pre_covid)] ELSE df.values[i]]),
                             df.columns)
               ELSE df,
             method |-> "interpolated"]
       ELSE IF covid_handling = "weight"
       THEN [data |-> Frame(df.index, df.values, df.columns \cup {"covid_weight"}),
             method |-> "weighted"]
       ELSE [data |-> df, method |-> "unchanged"]

----------------------------------------------------------------------------
(* DataPreprocessor._handle_outliers, with config.outlier_method at its    *)
(* default "isolation_forest": which values the forest flags is the        *)
(* environment's choice                                                    *)

FlagChoices == {"none", "first", "last"}

CountNaN(vals) == Cardinality({i \in 1..Len(vals) : IsNaN(vals[i])})

\* fit_predict raises on a column without a value
HandleOutliers(df, flag) ==
    LET valid == {i \in 1..Len(df.values) : ~IsNaN(df.values[i])}
        flagged == IF flag = "none" THEN {}
                   ELSE IF flag = "first" THEN {SetMin(valid)}
                   ELSE {SetMax(valid)}
    IN IF valid = {} THEN [outcome |-> "raised", data |-> df, outliers_removed |-> 0]
       ELSE [outcome |-> "returned",
             data |-> IF flagged = {} THEN df
                      ELSE Frame(df.index,
                                 Interpolate(Array([i \in 1..Len(df.values) |->
                                     IF i \in flagged THEN NaN ELSE df.values[i]])),
                                 df.columns),
             outliers_removed |-> Cardinality(flagged)]

----------------------------------------------------------------------------
(* DataPreprocessor._handle_missing_values *)

\* lines 270-279: a missing value takes the mean of the rows of its weekday
\* and month, when that mean exists
SeasonalFill(index, vals) ==
    Array([i \in 1..Len(vals) |->
        IF ~IsNaN(vals[i]) THEN vals[i]
        ELSE Only({ MeanSkipNa([k \in 1..Len(same) |-> vals[same[k]]])
                    : same \in {PositionsWhere(Len(vals), LAMBDA j :
                          /\ DayOfWeek(index[j]) = DayOfWeek(index[i])
                          /\ MonthOf(index[j]) = MonthOf(index[i]))} })])

HandleMissingValues(df) ==
    LET filled ==
          IF CountNaN(df.values) = 0 THEN df.values
          ELSE Only({ BfillFfill(IF CountNaN(lin) > 0
                                 THEN SeasonalFill(df.index, lin) ELSE lin)
                      : lin \in {Interpolate(df.values)} })
    IN [data |-> Frame(df.index, filled, df.columns),
        values_filled |-> CountNaN(df.values) - CountNaN(filled)]

----------------------------------------------------------------------------
(* DataPreprocessor._scale_data: MinMaxScaler on the target column *)

ScaleData(df) ==
    LET valid == {df.values[i] : i \in {j \in 1..Len(df.values) : ~IsNaN(df.values[j])}}
        lo == CHOOSE x \in valid : \A y \in valid : RLeq(x, y)
        hi == CHOOSE x \in valid : \A y \in valid : RLeq(y, x)
    IN [data |-> Frame(df.index, df.values, df.columns \cup {"price_scaled"}),
        scaled |-> Array([i \in 1..Len(df.values) |->
                      IF IsNaN(df.values[i]) THEN NaN
                      ELSE IF lo = hi THEN RInt(0)
                      ELSE RDiv(RSub(df.values[i], lo), RSub(hi, lo))])]

----------------------------------------------------------------------------
(* DataPreprocessor.preprocess_data; the quality score of step 6 is a      *)
(* number nothing else reads and is left out                               *)

NoFrame == Frame(<<>>, <<>>, {})

PreprocessData(df, covid_handling, flag) ==
    LET indexed == SetupDateIndex(df)
        covid == HandleCovidPeriod(indexed, covid_handling)
        outl == HandleOutliers(covid.data, flag)
        missing == HandleMissingValues(outl.data)
        scaling == ScaleData(missing.data)
    IN IF outl.outcome = "raised"
       THEN [outcome |-> "raised", processed_data |-> NoFrame, scaled |-> <<>>,
             covid_method |-> covid.method, outliers_removed |-> 0,
             missing_values_filled |-> 0, scaler_info |-> {}]
       ELSE [outcome |-> "returned", processed_data |-> scaling.data,
             scaled |-> scaling.scaled, covid_method |-> covid.method,
             outliers_removed |-> outl.outliers_removed,
             missing_values_filled |-> missing.values_filled,
             scaler_info |-> {"price"}]

\* input frames: the days first..last in order, in reverse order or with the
\* first day's row repeated at the end; possibly one calendar day absent,
\* possibly the first value missing; the dates in a 'date' column or in the
\* index
DayRanges ==
    {<<1, 64>>, <<2, 63>>, <<1, 33>>, <<32, 64>>, <<32, 33>>, <<1, 31>>,
     <<34, 64>>, <<31, 34>>, <<1, 1>>}
Layouts == {"sorted", "reversed", "duplicate"}
CovidHandlings == {"remove", "interpolate", "weight", "none"}

InputFrame(range, layout, hole, nanFirst, hasDate) ==
    LET kept == PositionsWhere(range[2] - range[1] + 1,
                    LAMBDA k : ~(hole /\ k = 2))
        m == Len(kept)
        DayAt(k) == range[1] + kept[k] - 1
        days == [k \in 1..m |-> IF layout = "reversed" THEN DayAt(m + 1 - k)
                                ELSE DayAt(k)]
        vals == [k \in 1..m |-> IF nanFirst /\ days[k] = range[1] THEN NaN
                                ELSE RInt(days[k])]
    IN IF layout = "duplicate"
       THEN Frame(Array(days \o <<range[1]>>), Array(vals \o <<RInt(range[1] + 2)>>),
                  IF hasDate THEN {"date", "price"} ELSE {"price"})
       ELSE Frame(Array(days), Array(vals),
                  IF hasDate THEN {"date", "price"} ELSE {"price"})

PreIdle == [pc |-> "idle", covid_handling |-> "none", input |-> NoFrame,
            result |-> [outcome |-> "none"], scalers |-> {}]

\* DataPreprocessor(config).preprocess_data(df, ['price'])
PreprocessCall ==
    /\ pre.pc = "idle"
    /\ \E range \in DayRanges, layout \in Layouts, hole, nanFirst, hasDate \in BOOLEAN,
          covid_handling \in CovidHandlings, flag \in FlagChoices :
          LET df == InputFrame(range, layout, hole, nanFirst, hasDate)
              r == PreprocessData(df, covid_handling, flag)
          IN pre' = [pc |-> "done", covid_handling |-> covid_handling,
                     input |-> df, result |-> r,
                     scalers |-> pre.scalers \cup r.scaler_info]
    /\ UNCHANGED notPreprocessorVars

\* the caller is done with the result; a new preprocessor is made for the
\* next call
PreprocessConsumed ==
    /\ pre.pc = "done"
    /\ pre' = PreIdle
    /\ UNCHANGED notPreprocessorVars

----------------------------------------------------------------------------
(* TimeSeriesDecomposer: decomposition *)
(* The statsmodels and scipy routines are the environment: a call either   *)
(* raises or returns components of one of a few shapes. What the code does *)
(* with them (preparation, fallbacks, the advanced recombination, the      *)
(* strengths) is computed.                                                 *)

\* the sum of seq[lo..hi], halving the range (a long series is summed in few
\* nested steps)
RECURSIVE RSumBetween(_, _, _)
RSumBetween(seq, lo, hi) ==
    IF lo > hi THEN RInt(0)
    ELSE IF lo = hi THEN seq[lo]
    ELSE Only({ RAdd(a, b) :
                a \in {RSumBetween(seq, lo, (lo + hi) \div 2)},
                b \in {RSumBetween(seq, (lo + hi) \div 2 + 1, hi)} })

\* Series.var(): the sample variance (ddof = 1) of the values that are not
\* NaN; NaN when fewer than two are left
Var(vals) ==
    Only({ IF Len(v) < 2 THEN NaN
           ELSE Only({ RDiv(RSub(RMul(RInt(Len(v)), sq), RMul(sm, sm)),
                            RInt(Len(v) * (Len(v) - 1))) :
                       sm \in {RSumBetween(v, 1, Len(v))},
                       sq \in {RSumBetween(Array([i \in 1..Len(v) |->
                                                    RMul(v[i], v[i])]),
                                           1, Len(v))} })
           : v \in {SelectSeq(Array(vals), LAMBDA x : ~IsNaN(x))} })

\* max(0.0, min(1.0, strength)); the comparisons with a NaN are all false, so
\* min(1.0, nan) is 1.0
Clamp01(strength) ==
    IF IsNaN(strength) THEN RInt(1)
    ELSE IF RLess(strength, RInt(0)) THEN RInt(0)
    ELSE IF RLess(RInt(1), strength) THEN RInt(1)
    ELSE strength

\* what would be returned had the ratio of the residual's share been taken
CalculateSeasonalStrengthOfResidual(result) ==
    Only({ IF ~IsNaN(seasonal_var) /\ ~IsNaN(residual_var)
              /\ RAdd(seasonal_var, residual_var) = RInt(0)
           THEN RInt(0)
           ELSE IF IsNaN(seasonal_var) \/ IsNaN(residual_var) THEN Clamp01(NaN)
           ELSE Clamp01(RDiv(residual_var, RAdd(seasonal_var, residual_var)))
           : seasonal_var \in {Var(result.seasonal)},
             residual_var \in {Var(result.residual)} })

\* TimeSeriesDecomposer._calculate_seasonal_strength
CalculateSeasonalStrength(result) ==
    Only({ IF ~IsNaN(seasonal_var) /\ ~IsNaN(residual_var)
              /\ RAdd(seasonal_var, residual_var) = RInt(0)
           THEN RInt(0)
           ELSE IF IsNaN(seasonal_var) \/ IsNaN(residual_var) THEN Clamp01(NaN)
           ELSE Clamp01(RDiv(seasonal_var, RAdd(seasonal_var, residual_var)))
           : seasonal_var \in {Var(result.seasonal)},
             residual_var \in {Var(result.residual)} })

\* TimeSeriesDecomposer._calculate_trend_strength
CalculateTrendStrength(result) ==
    Only({ IF ~IsNaN(trend_var) /\ ~IsNaN(residual_var)
              /\ RAdd(trend_var, residual_var) = RInt(0)
           THEN RInt(0)
           ELSE IF IsNaN(trend_var) \/ IsNaN(residual_var) THEN Clamp01(NaN)
           ELSE Clamp01(RDiv(trend_var, RAdd(trend_var, residual_var)))
           : trend_var \in {Var(SelectSeq(result.trend, LAMBDA x : ~IsNaN(x)))},
             residual_var \in {Var(SelectSeq(result.residual,
                                             LAMBDA x : ~IsNaN(x)))} })

\* the shapes of the components a library routine returns
TrendProfiles == {"flat", "follow"}
SeasonalProfiles == {"none", "weekly"}
SmoothProfiles == {"same", "zero"}

\* the trend a routine finds in x: a constant, or x itself
LibTrend(x, profile) ==
    Array([i \in 1..Len(x) |-> IF profile = "flat" THEN RInt(1) ELSE x[i]])

\* the seasonal component of an additive decomposition: zero, or a pattern
\* of period 7 around zero
LibSeasonalAdditive(x, profile) ==
    Array([i \in 1..Len(x) |->
              IF profile = "none" THEN RInt(0) ELSE RInt((i % 7) - 3)])

\* the seasonal component of a multiplicative decomposition: one, or a
\* pattern of factors
LibSeasonalMultiplicative(x, profile) ==
    Array([i \in 1..Len(x) |->
              IF profile = "none" \/ i % 2 = 1 THEN RInt(1) ELSE RInt(2)])

\* seasonal_decompose(series, model=model, ...): resid is what is left of the
\* series after the trend and the seasonal component are taken out
SeasonalDecompose(x, mode, lib) ==
    LET trend == LibTrend(x, lib.trend)
        seasonal == IF mode = "additive"
                    THEN LibSeasonalAdditive(x, lib.seasonal)
                    ELSE LibSeasonalMultiplicative(x, lib.seasonal)
    IN [trend |-> trend, seasonal |-> seasonal,
        residual |-> Array([i \in 1..Len(x) |->
                        IF mode = "additive"
                        THEN RSub(RSub(x[i], trend[i]), seasonal[i])
                        ELSE RDiv(x[i], RMul(trend[i], seasonal[i]))])]

Raised == [outcome |-> "raised", trend |-> <<>>, seasonal |-> <<>>,
           residual |-> <<>>, metadata |-> "none"]

Components(c, mode) ==
    [outcome |-> "returned", trend |-> c.trend, seasonal |-> c.seasonal,
     residual |-> c.residual, metadata |-> mode]

\* TimeSeriesDecomposer._classical_decomposition; lib.classical says whether
\* seasonal_decompose raises for the model asked for only, for every model,
\* or not at all
ClassicalDecomposition(x, mode, lib) ==
    IF lib.classical = "ok" THEN Components(SeasonalDecompose(x, mode, lib), mode)
    ELSE IF lib.classical = "first_raises" /\ mode # "additive"
    THEN Components(SeasonalDecompose(x, "additive", lib), "additive")
    ELSE Raised

\* TimeSeriesDecomposer._stl_decomposition
StlDecomposition(x, lib) ==
    IF lib.stl THEN Components(SeasonalDecompose(x, "additive", lib), "STL")
    ELSE ClassicalDecomposition(x, "multiplicative", lib)

\* TimeSeriesDecomposer._hp_filter_decomposition
HpFilterDecomposition(x, lib) ==
    IF lib.hp
    THEN LET trend == LibTrend(x, lib.trend)
         IN [outcome |-> "returned", trend |-> trend,
             seasonal |-> Array([i \in 1..Len(x) |-> RInt(0)]),
             residual |-> Array([i \in 1..Len(x) |-> RSub(x[i], trend[i])]),
             metadata |-> "HP"]
    ELSE Raised

\* savgol_filter(residual.values, window_length=21, polyorder=3)
SavgolFilter(residual, profile) ==
    Array([i \in 1..Len(residual) |->
              IF profile = "same" THEN residual[i] ELSE RInt(0)])

\* TimeSeriesDecomposer._advanced_decomposition
AdvancedDecomposition(x, lib) ==
    LET stl_result == StlDecomposition(x, lib)
    IN IF stl_result.outcome = "raised" THEN Raised
       ELSE LET residual == stl_result.residual
                smoothed_residual ==
                    IF Len(residual) > SavgolWindow
                    THEN SavgolFilter(residual, lib.smooth)
                    ELSE residual
            IN [outcome |-> "returned",
                trend |-> Array([i \in 1..Len(x) |->
                            RAdd(stl_result.trend[i],
                                 RSub(residual[i], smoothed_residual[i]))]),
                seasonal |-> stl_result.seasonal,
                residual |-> smoothed_residual,
                metadata |-> "Advanced STL"]

Methods == {"classical", "stl", "hp", "advanced", "x13"}
ModelArgs == {"default", "additive", "multiplicative"}

NoDecomposition ==
    [outcome |-> "none", original |-> EmptySeries, trend |-> <<>>,
     seasonal |-> <<>>, residual |-> <<>>, seasonal_strength |-> RInt(0),
     trend_strength |-> RInt(0), decomposition_method |-> "none",
     metadata |-> "none"]

\* TimeSeriesDecomposer.decompose_series(series, method, model=model_arg)
DecomposeSeries(series, method, model_arg, lib) ==
    LET prepared == PrepareSeries(series)
        clean_series == prepared.series
        x == clean_series.values
        result ==
            IF method = "classical"
            THEN ClassicalDecomposition(x, IF model_arg = "default"
                                           THEN "multiplicative"
                                           ELSE model_arg, lib)
            ELSE IF method = "stl" THEN StlDecomposition(x, lib)
            ELSE IF method = "hp" THEN HpFilterDecomposition(x, lib)
            ELSE IF method = "advanced" THEN AdvancedDecomposition(x, lib)
            ELSE Raised
    IN IF prepared.outcome = "raised" THEN [NoDecomposition EXCEPT !.outcome = "raised"]
       ELSE Only({ IF r.outcome = "raised"
                   THEN [NoDecomposition EXCEPT !.outcome = "raised"]
                   ELSE [outcome |-> "returned", original |-> clean_series,
                         trend |-> r.trend, seasonal |-> r.seasonal,
                         residual |-> r.residual,
                         seasonal_strength |-> CalculateSeasonalStrength(r),
                         trend_strength |-> CalculateTrendStrength(r),
                         decomposition_method |-> method, metadata |-> r.metadata]
                   : r \in {result} })

----------------------------------------------------------------------------
(* TimeSeriesDecomposer: structural breaks *)

\* the breaks a detector reports: (date, significance), in the order of the
\* series; a detector that fails reports none
CusumOutputs == {<<>>, <<<<40, 2>>>>, <<<<40, 2>>, <<80, 3>>>>}
VarianceOutputs == {<<>>, <<<<40, 1>>>>, <<<<30, 1>>, <<80, 1>>>>}
TrendOutputs == {<<>>, <<<<40, 1>>>>, <<<<35, 1>>, <<36, 1>>>>}

\* [(date, break_type, significance) for date, significance in found]
Tagged(found, break_type) ==
    [k \in 1..Len(found) |-> <<found[k][1], break_type, found[k][2]>>]

\* a sort by date that keeps one break per date
RECURSIVE SortOneBreakPerDate(_)
SortOneBreakPerDate(breaks) ==
    IF breaks = <<>> THEN <<>>
    ELSE LET b == breaks[Len(breaks)]
             sorted == SortOneBreakPerDate(SubSeq(breaks, 1, Len(breaks) - 1))
             k == Cardinality({i \in 1..Len(sorted) : sorted[i][1] <= b[1]})
         IN IF \E i \in 1..Len(sorted) : sorted[i][1] = b[1] THEN sorted
            ELSE SubSeq(sorted, 1, k) \o <<b>> \o SubSeq(sorted, k + 1, Len(sorted))

\* breaks.sort(key=lambda x: x[0]): a stable sort by date
RECURSIVE SortByDate(_)
SortByDate(breaks) ==
    IF breaks = <<>> THEN <<>>
    ELSE LET b == breaks[Len(breaks)]
             sorted == SortByDate(SubSeq(breaks, 1, Len(breaks) - 1))
             k == Cardinality({i \in 1..Len(sorted) : sorted[i][1] <= b[1]})
         IN SubSeq(sorted, 1, k) \o <<b>> \o SubSeq(sorted, k + 1, Len(sorted))

\* TimeSeriesDecomposer.detect_structural_breaks
DetectStructuralBreaks(series, cusum_breaks, variance_breaks, trend_breaks) ==
    IF PrepareSeries(series).outcome = "raised"
    THEN [outcome |-> "raised", breaks |-> <<>>]
    ELSE [outcome |-> "returned",
          breaks |-> SortByDate(Tagged(cusum_breaks, "level_shift")
                                \o Tagged(variance_breaks, "variance_change")
                                \o Tagged(trend_breaks, "trend_change"))]

----------------------------------------------------------------------------
(* TimeSeriesDecomposer: calls *)

NoLib == [classical |-> "ok", stl |-> TRUE, hp |-> TRUE, trend |-> "flat",
          seasonal |-> "none", smooth |-> "same"]

NoDetectors == [cusum |-> <<>>, variance |-> <<>>, trend |-> <<>>]

DecIdle == [pc |-> "idle", op |-> "none", input |-> EmptySeries,
            method |-> "none", model_arg |-> "default", lib |-> NoLib,
            detectors |-> NoDetectors, outcome |-> "none",
            result |-> NoDecomposition, breaks |-> <<>>]

\* the series a caller hands to the decomposer: one observation less than
\* the minimum, or one more, with or without a missing value in front
DecomposerInputs ==
    {MakeSeries(shape, "sorted", DecomposerMinLength + c[1], c[2]) :
        shape \in Shapes, c \in {<<-1, 0>>, <<1, 0>>, <<1, 1>>}}

\* decompose_series(series, method) or, for 'classical',
\* decompose_series(series, 'classical', model=model_arg)
DecomposeCall ==
    /\ dec.pc = "idle"
    /\ \E series \in DecomposerInputs, method \in Methods, model_arg \in ModelArgs,
          classical \in {"ok", "first_raises", "raises"}, ok \in BOOLEAN,
          trend \in TrendProfiles, seasonal \in SeasonalProfiles,
          smooth \in SmoothProfiles :
          LET lib == [classical |-> classical, stl |-> ok, hp |-> ok,
                      trend |-> trend, seasonal |-> seasonal, smooth |-> smooth]
              r == DecomposeSeries(series, method, model_arg, lib)
          IN \* arguments and library outcomes that play no part in the call
             \* are left at their defaults
             /\ model_arg # "default" => method = "classical"
             /\ ~ok => method \in {"stl", "hp", "advanced"}
             /\ classical # "ok" => (method = "classical" \/ ~ok)
             /\ smooth # "same" => method = "advanced"
             /\ dec' = [DecIdle EXCEPT !.pc = "done", !.op = "decompose_series",
                                       !.input = series, !.method = method,
                                       !.model_arg = model_arg, !.lib = lib,
                                       !.outcome = r.outcome, !.result = r]
    /\ UNCHANGED notDecomposerVars

\* detect_structural_breaks(series)
DetectBreaksCall ==
    /\ dec.pc = "idle"
    /\ \E series \in DecomposerInputs, cusum_breaks \in CusumOutputs,
          variance_breaks \in VarianceOutputs, trend_breaks \in TrendOutputs :
          LET r == DetectStructuralBreaks(series, cusum_breaks, variance_breaks,
                                          trend_breaks)
          IN dec' = [DecIdle EXCEPT !.pc = "done",
                                    !.op = "detect_structural_breaks",
                                    !.input = series,
                                    !.detectors = [cusum |-> cusum_breaks,
                                                   variance |-> variance_breaks,
                                                   trend |-> trend_breaks],
                                    !.outcome = r.outcome, !.breaks = r.breaks]
    /\ UNCHANGED notDecomposerVars

\* the caller is done with the result
DecomposerConsumed ==
    /\ dec.pc = "done"
    /\ dec' = DecIdle
    /\ UNCHANGED notDecomposerVars

----------------------------------------------------------------------------
(* OutlierDetector: data *)
(* Observations are prices: positive rationals. A score that the code      *)
(* computes as a square root or as a mean of scores is kept as that        *)
(* expression: <<"sqrt", q>>, <<"mean", scores>>. Positions count from 0,  *)
(* as in the code.                                                         *)

\* self.domain_thresholds
DailyChangeLimit == Rat(1, 10)
WeeklyVolatilityLimit == Rat(3, 20)
SupplyDisruptionThreshold == Rat(1, 5)

\* the constants of _statistical_detection
ModifiedZFactor == Rat(6745, 10000)
ModifiedZLimit == Rat(7, 2)
IqrFactor == Rat(3, 2)

\* the defaults of detect_outliers and of the methods
DefaultContamination == Rat(1, 10)
DefaultZThreshold == RInt(3)

RAbs(x) == <<Abs(x[1]), x[2]>>

SeriesMean(vals) == RDiv(RSumBetween(vals, 1, Len(vals)), RInt(Len(vals)))

\* np.std(values) ** 2: the population variance
PopVar(vals) == RMul(Var(vals), Rat(Len(vals) - 1, Len(vals)))

\* np.median
Median(vals) == Quantile(vals, 1, 2)

\* the positions (from 0), in increasing order, of the TRUE entries of a mask
WherePositions(mask) ==
    Array([k \in 1..Len(SelectSeq([i \in 1..Len(mask) |-> i], LAMBDA i : mask[i]))
              |-> SelectSeq([i \in 1..Len(mask) |-> i], LAMBDA i : mask[i])[k] - 1])

\* OutlierDetector._empty_result
EmptyResult(method, threshold) ==
    [outlier_indices |-> <<>>, outlier_scores |-> <<>>, outlier_types |-> <<>>,
     outlier_dates |-> <<>>, outlier_values |-> <<>>, total_outliers |-> 0,
     outlier_percentage |-> RInt(0), detection_method |-> method,
     threshold |-> threshold]

\* OutlierResult(...) as the four methods build it from the positions found
OutlierResult(series, outlier_indices, outlier_scores, outlier_types, method, threshold) ==
    [outlier_indices |-> outlier_indices,
     outlier_scores |-> outlier_scores,
     outlier_types |-> outlier_types,
     outlier_dates |-> Array([k \in 1..Len(outlier_indices) |->
                                 series.index[outlier_indices[k] + 1]]),
     outlier_values |-> Array([k \in 1..Len(outlier_indices) |->
                                  series.values[outlier_indices[k] + 1]]),
     total_outliers |-> Len(outlier_indices),
     outlier_percentage |-> Rat(Len(outlier_indices) * 100, Len(series.values)),
     detection_method |-> method,
     threshold |-> threshold]

----------------------------------------------------------------------------
(* OutlierDetector: the four methods *)

\* what IsolationForest does is the environment's: whether fitting raises,
\* and the anomaly scores it gives the rows (the lower, the more anomalous)
ScoreProfiles == {"deviation", "position"}

ScoreSamples(x, profile) ==
    Only({ Array([i \in 1..Len(x) |->
                     IF profile = "deviation" THEN RSub(RInt(0), RAbs(RSub(x[i], m)))
                     ELSE RInt(i)])
           : m \in {Median(x)} })

\* the contamination sklearn accepts: a float in (0, 0.5]
ContaminationAccepted(contamination) ==
    RLess(RInt(0), contamination) /\ RLeq(contamination, Rat(1, 2))

\* OutlierDetector._isolation_forest_detection: the rows whose score lies
\* below the contamination quantile of the scores are labelled -1
IsolationForestDetection(series, contamination, lib) ==
    IF ~lib.iso_ok \/ ~ContaminationAccepted(contamination)
    THEN EmptyResult("isolation_forest", contamination)
    ELSE Only({ Only({ OutlierResult(series, outlier_indices,
                           Array([k \in 1..Len(outlier_indices) |->
                                     outlier_scores[outlier_indices[k] + 1]]),
                           Array([k \in 1..Len(outlier_indices) |-> "isolation_forest"]),
                           "isolation_forest", contamination)
                       : outlier_indices \in {WherePositions(
                             [i \in 1..Len(outlier_scores) |->
                                 RLess(outlier_scores[i], offset)])} })
                : outlier_scores \in {ScoreSamples(series.values, lib.scores)},
                  offset \in {Quantile(ScoreSamples(series.values, lib.scores),
                                       contamination[1], contamination[2])} })

\* the mask of _statistical_detection with the numbers it needs computed once
StatisticalMask(x, z_threshold, mean, pvar, median, mad, Q1, Q3) ==
    Array([i \in 1..Len(x) |->
        \* z_scores > z_threshold; the z-score of a series without spread is NaN
        \/ /\ pvar # RInt(0)
           /\ RLess(RMul(RMul(z_threshold, z_threshold), pvar),
                    RMul(RSub(x[i], mean), RSub(x[i], mean)))
        \* np.abs(modified_z_scores) > 3.5; with mad = 0 the score is inf, or
        \* NaN where the value is the median
        \/ IF mad = RInt(0) THEN x[i] # median
           ELSE RLess(RMul(ModifiedZLimit, mad),
                      RMul(ModifiedZFactor, RAbs(RSub(x[i], median))))
        \/ RLess(x[i], RSub(Q1, RMul(IqrFactor, RSub(Q3, Q1))))
        \/ RLess(RAdd(Q3, RMul(IqrFactor, RSub(Q3, Q1))), x[i])])

\* OutlierDetector._statistical_detection
StatisticalDetection(series, z_threshold) ==
    Only({ Only({ Only({ OutlierResult(series, outlier_indices,
                    Array([k \in 1..Len(outlier_indices) |->
                              IF pvar = RInt(0) THEN NaN
                              ELSE <<"sqrt",
                                     RDiv(RMul(RSub(x[outlier_indices[k] + 1], mean),
                                               RSub(x[outlier_indices[k] + 1], mean)),
                                          pvar)>>]),
                    Array([k \in 1..Len(outlier_indices) |-> "statistical"]),
                    "statistical", z_threshold)
                  : outlier_indices \in {WherePositions(
                        StatisticalMask(x, z_threshold, mean, pvar, median, mad,
                                        Q1, Q3))} })
             : mad \in {Median(Array([i \in 1..Len(x) |-> RAbs(RSub(x[i], median))]))} })
           : x \in {series.values}, mean \in {SeriesMean(series.values)},
             pvar \in {PopVar(series.values)}, median \in {Median(series.values)},
             Q1 \in {Quantile(series.values, 1, 4)},
             Q3 \in {Quantile(series.values, 3, 4)} })

\* series.pct_change().abs(): NaN for the first row
PctChangeAbs(x) ==
    Array([i \in 1..Len(x) |->
              IF i = 1 THEN NaN ELSE RAbs(RDiv(RSub(x[i], x[i - 1]), x[i - 1]))])

\* series.rolling(window=7).std() ** 2: NaN for the first six rows
RollingVar(x) ==
    Array([i \in 1..Len(x) |->
              IF i < RollingWindow THEN NaN
              ELSE Var(SubSeq(x, i - RollingWindow + 1, i))])

\* OutlierDetector._detect_consecutive_changes on a series indexed by dates:
\* when a run of three or more changes above the threshold ends, the code
\* adds the run's start position to the label idxmax() returns, a Timestamp,
\* which raises; without such a run it returns no position
ConsecutiveChangesRaise(x) ==
    LET changes == PctChangeAbs(x)
        above(i) == ~IsNaN(changes[i]) /\ RLess(SupplyDisruptionThreshold, changes[i])
    IN \E i \in (ConsecutiveDays + 2)..Len(x) :
          /\ ~above(i)
          /\ \A j \in 1..ConsecutiveDays : above(i - j)

\* _domain_based_detection without the test 'pos not in outlier_indices'
DomainBasedDetectionUnchecked(series) ==
    IF ConsecutiveChangesRaise(series.values)
    THEN EmptyResult("domain_based", Rat(1, 10))
    ELSE Only({ Only({ OutlierResult(series, daily \o weekly,
                    Array([k \in 1..Len(daily) |-> daily_changes[daily[k] + 1]])
                    \o Array([k \in 1..Len(weekly) |->
                                 <<"sqrt", weekly_var[weekly[k] + 1]>>]),
                    Array([k \in 1..Len(daily) |-> "daily_spike"])
                    \o Array([k \in 1..Len(weekly) |-> "volatility_spike"]),
                    "domain_based", DailyChangeLimit)
                  : weekly \in {WherePositions([i \in 1..Len(weekly_var) |->
                            /\ ~IsNaN(weekly_var[i])
                            /\ RLess(RMul(RMul(WeeklyVolatilityLimit,
                                               WeeklyVolatilityLimit), svar),
                                     weekly_var[i])])} })
           : daily_changes \in {PctChangeAbs(series.values)},
             daily \in {WherePositions([i \in 1..Len(series.values) |->
                           /\ i > 1
                           /\ RLess(DailyChangeLimit,
                                    PctChangeAbs(series.values)[i])])},
             weekly_var \in {RollingVar(series.values)},
             svar \in {Var(series.values)} })

\* OutlierDetector._domain_based_detection
DomainBasedDetection(series) ==
    IF ConsecutiveChangesRaise(series.values)
    THEN EmptyResult("domain_based", Rat(1, 10))
    ELSE Only({ Only({ OutlierResult(series, daily \o weekly,
                    Array([k \in 1..Len(daily) |-> daily_changes[daily[k] + 1]])
                    \o Array([k \in 1..Len(weekly) |->
                                 <<"sqrt", weekly_var[weekly[k] + 1]>>]),
                    Array([k \in 1..Len(daily) |-> "daily_spike"])
                    \o Array([k \in 1..Len(weekly) |-> "volatility_spike"]),
                    "domain_based", DailyChangeLimit)
                  : weekly \in {SelectSeq(
                        WherePositions([i \in 1..Len(weekly_var) |->
                            /\ ~IsNaN(weekly_var[i])
                            /\ RLess(RMul(RMul(WeeklyVolatilityLimit,
                                               WeeklyVolatilityLimit), svar),
                                     weekly_var[i])]),
                        LAMBDA pos : \A k \in 1..Len(daily) : daily[k] # pos)} })
           : daily_changes \in {PctChangeAbs(series.values)},
             daily \in {WherePositions([i \in 1..Len(series.values) |->
                           /\ i > 1
                           /\ RLess(DailyChangeLimit,
                                    PctChangeAbs(series.values)[i])])},
             weekly_var \in {RollingVar(series.values)},
             svar \in {Var(series.values)} })

\* the entries <<result, place>> of the three results, in the order the loop
\* of lines 298-306 visits them, that list a position
Contributions(results, idx) ==
    LET of(m) == SelectSeq([k \in 1..Len(results[m].outlier_indices) |-> <<m, k>>],
                           LAMBDA c : results[m].outlier_indices[c[2]] = idx)
    IN  of(1) \o of(2) \o of(3)

\* vote_counts[idx]: one for every entry that lists the position
VoteCount(results, idx) == Len(Contributions(results, idx))

\* a selection that wants more than min_votes votes
KeptAbove(votes, min_votes) == votes > min_votes

\* the test of the list comprehension of line 310
Kept(votes, min_votes) == votes >= min_votes

\* the names the loop of line 298 gives the three results
MethodTags == <<"iso", "stat", "domain">>

\* OutlierDetector._ensemble_detection: the sub-detectors run with their
\* defaults; a position is kept when it has at least min_votes votes.
\* The score of a position is the mean of the scores of the entries that list
\* it, its type their tags method:type; the positions are listed in
\* increasing order.
EnsembleDetection(series, contamination, min_votes, lib) ==
    Only({ Only({ OutlierResult(series, final_outliers,
                    Array([k \in 1..Len(final_outliers) |->
                        <<"mean",
                          Array([j \in 1..VoteCount(results, final_outliers[k]) |->
                              LET c == Contributions(results, final_outliers[k])[j]
                              IN results[c[1]].outlier_scores[c[2]]])>>]),
                    Array([k \in 1..Len(final_outliers) |->
                        Array([j \in 1..VoteCount(results, final_outliers[k]) |->
                              LET c == Contributions(results, final_outliers[k])[j]
                              IN <<MethodTags[c[1]],
                                   results[c[1]].outlier_types[c[2]]>>])]),
                    "ensemble", min_votes)
                  : final_outliers \in {WherePositions(
                        [i \in 1..Len(series.values) |->
                            /\ VoteCount(results, i - 1) > 0
                            /\ Kept(VoteCount(results, i - 1), min_votes)])} })
           : results \in {<<IsolationForestDetection(series, contamination, lib),
                           StatisticalDetection(series, DefaultZThreshold),
                           DomainBasedDetection(series)>>} })

DetectionMethods == {"isolation_forest", "statistical", "domain_based", "ensemble"}

\* detect_outliers with the method looked up before the length is checked
DetectOutliersDispatchFirst(series, method, contamination, kwargs, lib) ==
    Only({ IF method \notin DetectionMethods
           THEN [outcome |-> "raised", result |-> EmptyResult(method, RInt(0))]
           ELSE IF Len(clean_series.values) < OutlierMinLength
           THEN [outcome |-> "returned", result |-> EmptyResult(method, RInt(0))]
           ELSE [outcome |-> "returned",
                 result |-> IF method = "isolation_forest"
                            THEN IsolationForestDetection(clean_series, contamination, lib)
                            ELSE IF method = "statistical"
                            THEN StatisticalDetection(clean_series, kwargs.z_threshold)
                            ELSE IF method = "domain_based"
                            THEN DomainBasedDetection(clean_series)
                            ELSE EnsembleDetection(clean_series, contamination,
                                                   kwargs.min_votes, lib)]
           : clean_series \in {Dropna(series)} })

\* OutlierDetector.detect_outliers(series, method, contamination, **kwargs)
DetectOutliers(series, method, contamination, kwargs, lib) ==
    Only({ IF Len(clean_series.values) < OutlierMinLength
           THEN [outcome |-> "returned", result |-> EmptyResult(method, RInt(0))]
           ELSE IF method = "isolation_forest"
           THEN [outcome |-> "returned",
                 result |-> IsolationForestDetection(clean_series, contamination, lib)]
           ELSE IF method = "statistical"
           THEN [outcome |-> "returned",
                 result |-> StatisticalDetection(clean_series, kwargs.z_threshold)]
           ELSE IF method = "domain_based"
           THEN [outcome |-> "returned", result |-> DomainBasedDetection(clean_series)]
           ELSE IF method = "ensemble"
           THEN [outcome |-> "returned",
                 result |-> EnsembleDetection(clean_series, contamination,
                                              kwargs.min_votes, lib)]
           ELSE [outcome |-> "raised", result |-> EmptyResult(method, RInt(0))]
           : clean_series \in {Dropna(series)} })

----------------------------------------------------------------------------
(* OutlierDetector: calls *)

\* the series a caller hands to the detector: prices on consecutive days,
\* one fewer than the minimum or exactly the minimum, with or without a
\* missing value in front
\* "surge" rises by more than 20% on three days in a row and stays there;
\* "rally" does so on the last three days of the series
PriceShapes == {"flat", "levels", "spike", "surge", "rally"}

PriceValue(shape, i, n) ==
    IF shape = "flat" THEN 10
    ELSE IF shape = "levels" THEN (IF 3 * i <= n THEN 10 ELSE IF 3 * i <= 2 * n THEN 15 ELSE 20)
    ELSE IF shape = "spike" THEN (IF i = 12 THEN 50 ELSE 10)
    ELSE IF shape = "surge"
    THEN (IF i <= 10 THEN 10 ELSE IF i = 11 THEN 13 ELSE IF i = 12 THEN 17 ELSE 23)
    ELSE IF i <= n - 3 THEN 10 ELSE IF i = n - 2 THEN 13 ELSE IF i = n - 1 THEN 17 ELSE 23

PriceSeries(shape, n, nans) ==
    [index |-> [i \in 1..(n + nans) |-> i],
     values |-> [i \in 1..(n + nans) |->
                    IF i <= nans THEN NaN ELSE RInt(PriceValue(shape, i - nans, n))]]

DetectorInputs ==
    {PriceSeries(shape, OutlierMinLength + c[1], c[2]) :
        shape \in PriceShapes, c \in {<<-1, 0>>, <<-1, 1>>, <<0, 0>>, <<0, 1>>}}

Contaminations == {Rat(1, 10), Rat(1, 5), Rat(3, 5)}
ZThresholds == {RInt(1), RInt(2), RInt(3)}
MinVotes == {1, 2, 3}
MethodArgs == DetectionMethods \cup {"lof"}

NoDetection == [contamination |-> DefaultContamination,
                z_threshold |-> DefaultZThreshold, min_votes |-> DefaultMinVotes,
                outcome |-> "none", result |-> EmptyResult("none", RInt(0))]

OutIdle == [pc |-> "idle", series |-> EmptySeries, method |-> "none",
            lib |-> [iso_ok |-> TRUE, scores |-> "deviation"],
            first |-> NoDetection, second |-> NoDetection]

\* one call of detect_outliers with the arguments given
Detection(series, method, contamination, z_threshold, min_votes, lib) ==
    LET r == DetectOutliers(series, method, contamination,
                            [z_threshold |-> z_threshold, min_votes |-> min_votes],
                            lib)
    IN [contamination |-> contamination, z_threshold |-> z_threshold,
        min_votes |-> min_votes, outcome |-> r.outcome, result |-> r.result]

\* the arguments a method does not read are left at their defaults
ArgumentsInUse(method, contamination, z_threshold, min_votes, lib) ==
    /\ contamination # DefaultContamination => method \in {"isolation_forest", "ensemble"}
    /\ z_threshold # DefaultZThreshold => method = "statistical"
    /\ min_votes # DefaultMinVotes => method = "ensemble"
    /\ lib # OutIdle.lib => method \in {"isolation_forest", "ensemble"}

\* detect_outliers(series, method, contamination, z_threshold=..., min_votes=...)
DetectCall ==
    /\ detector.pc = "idle"
    /\ \E series \in DetectorInputs, method \in MethodArgs,
          contamination \in Contaminations, z_threshold \in ZThresholds,
          min_votes \in MinVotes, iso_ok \in BOOLEAN, scores \in ScoreProfiles :
          LET lib == [iso_ok |-> iso_ok, scores |-> scores]
          IN /\ ArgumentsInUse(method, contamination, z_threshold, min_votes, lib)
             /\ ~iso_ok => scores = "deviation"
             /\ detector' = [pc |-> "once", series |-> series, method |-> method,
                             lib |-> lib,
                             first |-> Detection(series, method, contamination,
                                                 z_threshold, min_votes, lib),
                             second |-> NoDetection]
    /\ UNCHANGED notOutlierVars

\* the same series and method once more, with one argument raised
DetectAgain ==
    /\ detector.pc = "once"
    /\ detector.first.outcome = "returned"
    /\ \E contamination \in Contaminations, z_threshold \in ZThresholds,
          min_votes \in MinVotes :
          /\ ArgumentsInUse(detector.method, contamination, z_threshold, min_votes,
                            detector.lib)
          /\ \/ /\ RLess(detector.first.contamination, contamination)
                /\ z_threshold = detector.first.z_threshold
                /\ min_votes = detector.first.min_votes
             \/ /\ contamination = detector.first.contamination
                /\ RLess(detector.first.z_threshold, z_threshold)
                /\ min_votes = detector.first.min_votes
             \/ /\ contamination = detector.first.contamination
                /\ z_threshold = detector.first.z_threshold
                /\ detector.first.min_votes < min_votes
          /\ detector' = [detector EXCEPT
                 !.pc = "twice",
                 !.second = Detection(detector.series, detector.method,
                                      contamination, z_threshold, min_votes,
                                      detector.lib)]
    /\ UNCHANGED notOutlierVars

\* the caller is done with the results
DetectorConsumed ==
    /\ detector.pc \in {"once", "twice"}
    /\ detector' = OutIdle
    /\ UNCHANGED notOutlierVars

----------------------------------------------------------------------------
(* ImprovedSevenDayForecaster.validate_seven_day_accuracy                   *)
(* (backend/app/models/improved_seven_day_forecaster.py)                    *)
(* The frame is the gasoline column of load_historical_data(), sorted by    *)
(* date; its rows are numbered from 0 as iloc numbers them.                 *)

\* actual_idx = end_idx + 7, and the 7 of predicted_price and of the guard
SevenDays == 7
\* calculate_improved_trend: window
TrendWindow == 14
\* np.clip(adjusted_trend, -0.005, 0.005)
TrendLimit == Rat(1, 200)
\* base_confidence - time_decay_rate * 7 - prediction_error * 0.5
\*   = 0.75 - 0.025 * 7 - 0.03 * 0.5
ConfidenceBeforeVolatility == Rat(14, 25)
\* the threshold of the high-confidence samples: c > 0.6
HighConfidence == Rat(3, 5)

\* df.iloc[k] for k >= 0
Iloc(df, k) == df[k + 1]
\* the frame handed over when the slice runs through the scored row
IlocThroughActual(df, end_idx) == HeadRows(df, end_idx + SevenDays + 1)
\* df.iloc[:end_idx]; a negative end counts from the end of the frame
IlocUpTo(df, end_idx) ==
    IF end_idx >= 0 THEN HeadRows(df, end_idx)
    ELSE HeadRows(df, SetMax({0, Len(df) + end_idx}))

\* what LinearRegression, pct_change().std() and the mean reversion give
\* before the clip: below the band, inside it at zero, above it, or on the
\* side the window moved to
TrendFits == {"below", "zero", "above", "momentum"}

\* calculate_improved_trend(prices): 0.0 under 14 rows, otherwise the
\* adjusted trend clipped to +-0.005
CalculateImprovedTrend(prices, fit) ==
    IF Len(prices) < TrendWindow THEN RInt(0)
    ELSE LET recent_prices == TailRows(prices, TrendWindow)
             moved == recent_prices[TrendWindow] - recent_prices[1]
         IN  CASE fit = "below" -> RSub(RInt(0), TrendLimit)
               [] fit = "zero" -> RInt(0)
               [] fit = "above" -> TrendLimit
               [] OTHER -> IF moved > 0 THEN TrendLimit
                           ELSE IF moved < 0 THEN RSub(RInt(0), TrendLimit)
                           ELSE RInt(0)

\* calculate_realistic_confidence(7, volatility): the volatility is the
\* standard deviation of the day-over-day changes of the rows handed over,
\* kept as a term; the penalty is never negative, so the value is at most
\* ConfidenceBeforeVolatility and at least min_confidence
CalculateRealisticConfidence(rows) ==
    [at_most |-> ConfidenceBeforeVolatility, at_least |-> Rat(9, 20),
     volatility_of_rows |-> rows]

\* one pass of the loop body for origin i; "skipped" when the guard at
\* line 337 fails, "raised" when past_data has no last row
Origin(df, historical_days, i, fit) ==
    LET end_idx == Len(df) - historical_days + i
        past_data == IlocUpTo(df, end_idx)
        actual_idx == end_idx + SevenDays
    IN  IF ~(actual_idx < Len(df))
        THEN [kind |-> "skipped", i |-> i, end_idx |-> end_idx,
              actual_idx |-> actual_idx]
        ELSE IF Len(past_data) = 0
        THEN [kind |-> "raised", i |-> i, end_idx |-> end_idx,
              actual_idx |-> actual_idx]
        ELSE Only({
             [kind |-> "sample", i |-> i, end_idx |-> end_idx,
              actual_idx |-> actual_idx,
              past_rows |-> 0 .. (Len(past_data) - 1),
              current_row |-> Len(past_data) - 1,
              actual_price |-> RInt(Iloc(df, actual_idx)),
              predicted_price |->
                  RAdd(RInt(current_price),
                       RMul(RMul(trend, RInt(current_price)), RInt(SevenDays))),
              confidence |-> CalculateRealisticConfidence(0 .. (Len(past_data) - 1))]
             : current_price \in {past_data[Len(past_data)]},
               trend \in {CalculateImprovedTrend(past_data, fit)} })

\* for i in range(historical_days): the passes in order
Origins(df, historical_days, fit) ==
    Array([k \in 1..SetMax({0, historical_days}) |->
               Origin(df, historical_days, k - 1, fit)])

\* the three lists the loop appends to, as one list of samples
Samples(origins) == SelectSeq(origins, LAMBDA o : o.kind = "sample")

\* round(x, ndigits) of a finite value: to the nearest, ties to even
Round(x, scale) ==
    IF IsNaN(x) THEN NaN
    ELSE Only({ LET r == (2 * m[1] + m[2]) \div (2 * m[2])
                    tie == (2 * m[1] + m[2]) % (2 * m[2]) = 0
                IN  Rat(IF tie /\ r % 2 = 1 THEN r - 1 ELSE r, scale)
                : m \in {RMul(x, RInt(scale))} })

\* np.mean of a list; nan (with a warning) for an empty one
NpMean(vals) == IF Len(vals) = 0 THEN NaN ELSE SeriesMean(vals)

Sign(x) == IF x[1] > 0 THEN 1 ELSE IF x[1] < 0 THEN -1 ELSE 0

\* np.mean(np.sign(actual[1:] - actual[:-1]) == np.sign(predicted[1:] - predicted[:-1])) * 100;
\* the mean of no comparison is nan
DirectionAccuracy(actual, predicted) ==
    IF Len(actual) <= 1 THEN NaN
    ELSE
    RMul(NpMean([k \in 1..(Len(actual) - 1) |->
                    IF Sign(RSub(actual[k + 1], actual[k]))
                         = Sign(RSub(predicted[k + 1], predicted[k]))
                    THEN RInt(1) ELSE RInt(0)]),
         RInt(100))

EmptyMetrics == [kind |-> "empty"]

\* lines 356-380: the dictionary of metrics over the samples
Metrics(historical_days, samples) ==
    Only({ LET errors == [k \in 1..Len(actual) |-> RSub(actual[k], predicted[k])]
           IN [kind |-> "metrics",
               validation_period |-> historical_days,
               sample_size |-> Len(actual),
               mape |-> Round(RMul(NpMean([k \in 1..Len(actual) |->
                                     RAbs(RDiv(errors[k], actual[k]))]), RInt(100)), 100),
               rmse |-> <<"round2", <<"sqrt",
                            NpMean([k \in 1..Len(actual) |-> RMul(errors[k], errors[k])])>>>>,
               mae |-> Round(NpMean([k \in 1..Len(actual) |-> RAbs(errors[k])]), 100),
               direction_accuracy |-> Round(DirectionAccuracy(actual, predicted), 100),
               average_confidence |-> <<"round3", <<"mean",
                            [k \in 1..Len(samples) |-> samples[k].confidence]>>>>,
               high_confidence_samples |->
                   Cardinality({k \in 1..Len(samples) :
                       RLess(HighConfidence, samples[k].confidence.at_most)}),
               high_confidence_mape |-> RInt(0)]
           : actual \in {Array([k \in 1..Len(samples) |-> samples[k].actual_price])},
             predicted \in {Array([k \in 1..Len(samples) |-> samples[k].predicted_price])} })

\* validate_seven_day_accuracy(historical_days) on the loaded frame (None
\* when load_historical_data failed)
ValidateSevenDayAccuracy(historical_df, historical_days, fit) ==
    IF historical_df = NoneObj THEN
        [outcome |-> "returned", origins |-> <<>>, result |-> EmptyMetrics]
    ELSE IF Len(historical_df) < historical_days + SevenDays THEN
        [outcome |-> "returned", origins |-> <<>>, result |-> EmptyMetrics]
    ELSE Only({
        IF \E k \in 1..Len(origins) : origins[k].kind = "raised"
        THEN [outcome |-> "raised", origins |-> origins, result |-> EmptyMetrics]
        ELSE IF Len(Samples(origins)) = 0
        THEN [outcome |-> "returned", origins |-> origins, result |-> EmptyMetrics]
        ELSE [outcome |-> "returned", origins |-> origins,
              result |-> Metrics(historical_days, Samples(origins))]
        : origins \in {Origins(historical_df, historical_days, fit)} })

(* ImprovedSevenDayForecaster: the calls *)

\* shapes of the gasoline column (won per litre)
BacktestShapes == {"flat", "steps", "zigzag", "falling"}
BacktestPrice(shape, k) ==
    CASE shape = "flat" -> 1600
      [] shape = "steps" -> 1000 + 200 * ((k \div 5) % 4)
      [] shape = "zigzag" -> IF k % 2 = 0 THEN 1600 ELSE 2000
      [] OTHER -> 2000 - 400 * ((k \div 6) % 3)
BacktestFrame(shape, n) == Array([k \in 1..n |-> BacktestPrice(shape, k - 1)])

\* historical_days of the calls
HistoricalDays == {0, SevenDays, SevenDays + 1, SevenDays + 2, MaxHistoricalDays}
\* rows the frame has beyond historical_days
SpareRows == {3, SevenDays - 1, SevenDays, TrendWindow - 1, TrendWindow}

BacktestIdle == [pc |-> "idle", historical_df |-> NoneObj, historical_days |-> 0,
                 outcome |-> "none", origins |-> <<>>, result |-> EmptyMetrics]

\* one call of validate_seven_day_accuracy
ValidateCall ==
    /\ backtest.pc = "idle"
    /\ \E loaded \in BOOLEAN, shape \in BacktestShapes, h \in HistoricalDays,
          spare \in SpareRows, fit \in TrendFits :
         /\ ~loaded => (shape = "flat" /\ spare = 3 /\ fit = "zero")
         /\ (h + spare < TrendWindow) => fit = "zero"
         /\ LET df == IF loaded THEN BacktestFrame(shape, h + spare) ELSE NoneObj
                r == ValidateSevenDayAccuracy(df, h, fit)
            IN  backtest' = [pc |-> "done", historical_df |-> df, historical_days |-> h,
                             outcome |-> r.outcome, origins |-> r.origins,
                             result |-> r.result]
    /\ UNCHANGED notBacktestVars

\* the caller is done with the result
BacktestConsumed ==
    /\ backtest.pc = "done"
    /\ backtest' = BacktestIdle
    /\ UNCHANGED notBacktestVars

----------------------------------------------------------------------------
(* Two (region, fuel-type) units of work on one forecaster instance         *)
(* OilPriceForecaster: a unit is the body of the loop of forecast (lines    *)
(* 425-457) on the unit's own frame: train_models, then ensemble_predict    *)
(* with the models train_models returned.  SimpleOilPriceForecaster: a unit *)
(* is one call of forecast_region_fuel.  The steps of the two units         *)
(* interleave in any order.                                                 *)

\* what the unit's frame makes the models score and predict
UnitData == [mae : MaeProfiles, values : ValueProfiles, stage : {"ok", "later"}]

\* lines 451-457: what the unit reports
UnitReport(pred, perf, fi, fuel_type) ==
    [outcome |-> pred.outcome, weights |-> pred.weights,
     prediction |-> pred.prediction,
     model_performance |-> IF fuel_type \in DOMAIN perf THEN perf[fuel_type]
                           ELSE EmptyDict,
     feature_importance |-> <<fuel_type, "rf">> \in fi]

UnitRaised == [outcome |-> "raised"]
NoReport == [outcome |-> "none"]

\* the unit's rows for the simple forecaster
UnitRows == {MinRows, TrendDays}

\* generate_forecast hands every unit the same forecast_days
UnitForecastDays == DefaultForecastDays

\* the unit with nothing else running, on a forecaster that has trained
\* nothing: the fields train_models leaves are the ones ensemble_predict reads
RunAlone(kind, region, fuel_type, data, rows) ==
    IF kind = "simple"
    THEN ForecastRegionFuel(region, fuel_type, rows, FALSE, UnitForecastDays)
    ELSE LET tr == TrainModels(SequenceLength + DefaultHorizon + 2, fuel_type,
                               [stage |-> data.stage, mae |-> data.mae])
         IN  IF tr.raised THEN UnitRaised
             ELSE UnitReport(EnsemblePredict(tr.ret, fuel_type, tr.model_performance,
                                 tr.scalers,
                                 [values |-> data.values, raiseAt |-> "none"]),
                             tr.model_performance, tr.feature_importance, fuel_type)

NoUnit == [kind |-> "none", region |-> 0, fuel_type |-> "none", pc |-> "none",
           trained |-> {}, rows |-> 0, report |-> NoReport, alone |-> NoReport,
           data |-> [mae |-> EmptyDict, values |-> EmptyDict, stage |-> "ok"]]

UnitsIdle == [k \in 1..2 |-> NoUnit]

\* the forecaster has trained nothing
InstanceFresh ==
    /\ models = EmptyDict
    /\ scalers = {}
    /\ feature_importance = {}
    /\ model_performance = EmptyDict

\* two different units are handed to one new forecaster
UnitsStart ==
    /\ units = UnitsIdle
    /\ InstanceFresh
    /\ \E kind \in {"ensemble", "simple"}, r1 \in Regions, r2 \in Regions,
          f1 \in FuelSet, f2 \in FuelSet, d1 \in UnitData, d2 \in UnitData,
          n1 \in UnitRows, n2 \in UnitRows :
         /\ <<r1, f1>> # <<r2, f2>>
         /\ kind = "simple" => (d1 = d2 /\ d1.stage = "ok")
         /\ kind = "ensemble" => (n1 = n2 /\ d1.values = d2.values)
         /\ LET unit(r, f, d, n) ==
                    [NoUnit EXCEPT !.kind = kind, !.region = r, !.fuel_type = f,
                                   !.pc = "ready", !.data = d, !.rows = n,
                                   !.alone = RunAlone(kind, r, f, d, n)]
            IN  units' = <<unit(r1, f1, d1, n1), unit(r2, f2, d2, n2)>>
    /\ UNCHANGED <<models, scalers, feature_importance, model_performance>>
    /\ UNCHANGED besideUnitsVars

\* a unit calls train_models(df, fuel_type) on its frame
UnitTrain ==
    \E k \in 1..2 :
      /\ units[k].kind = "ensemble"
      /\ units[k].pc = "ready"
      /\ LET tr == TrainModels(SequenceLength + DefaultHorizon + 2, units[k].fuel_type,
                               [stage |-> units[k].data.stage, mae |-> units[k].data.mae])
         IN  /\ models' = tr.models
             /\ scalers' = tr.scalers
             /\ feature_importance' = tr.feature_importance
             /\ model_performance' = tr.model_performance
             /\ units' = [units EXCEPT ![k] =
                   IF tr.raised
                   THEN [@ EXCEPT !.pc = "done", !.report = UnitRaised]
                   ELSE [@ EXCEPT !.pc = "trained", !.trained = tr.ret]]
      /\ UNCHANGED besideUnitsVars

\* a unit calls ensemble_predict(models, X_latest, fuel_type) and builds its
\* entry from self.model_performance and self.feature_importance
UnitPredict ==
    \E k \in 1..2 :
      /\ units[k].kind = "ensemble"
      /\ units[k].pc = "trained"
      /\ LET pred == EnsemblePredict(units[k].trained, units[k].fuel_type,
                         model_performance, scalers,
                         [values |-> units[k].data.values, raiseAt |-> "none"])
         IN  units' = [units EXCEPT ![k] =
                 [@ EXCEPT !.pc = "done",
                           !.report = UnitReport(pred, model_performance,
                                          feature_importance, units[k].fuel_type)]]
      /\ UNCHANGED <<models, scalers, feature_importance, model_performance>>
      /\ UNCHANGED besideUnitsVars

\* a unit calls forecast_region_fuel: no field of the forecaster is assigned
UnitForecastRegionFuel ==
    \E k \in 1..2 :
      /\ units[k].kind = "simple"
      /\ units[k].pc = "ready"
      /\ units' = [units EXCEPT ![k] =
             [@ EXCEPT !.pc = "done",
                       !.report = ForecastRegionFuel(units[k].region, units[k].fuel_type,
                                      units[k].rows, FALSE, UnitForecastDays)]]
      /\ UNCHANGED <<models, scalers, feature_importance, model_performance>>
      /\ UNCHANGED besideUnitsVars

\* both units are done and the forecaster is dropped
UnitsConsumed ==
    /\ \A k \in 1..2 : units[k].pc = "done"
    /\ units' = UnitsIdle
    /\ models' = EmptyDict
    /\ scalers' = {}
    /\ feature_importance' = {}
    /\ model_performance' = EmptyDict
    /\ UNCHANGED besideUnitsVars

----------------------------------------------------------------------------
(* TimeSeriesDecomposer: the three break detectors (decomposition.py)       *)
(* values are the series' values in index order; a break carries the       *)
(* position i whose index label dates[i] the code reports.                  *)

\* detect_structural_breaks(series, min_segment_length=30)
DefaultMinSegmentLength == 30
\* window_size = max(30, min_segment_length)
MinWindowSize == 30

\* np.std(values): the population standard deviation
NpStd(vals) == RSqrt(PopVar(vals))

RMax(x, y) == IF RLess(x, y) THEN y ELSE x

\* line 468: i >= min_segment_length and (len(breaks) == 0 or
\* i - breaks[-1][1] >= min_segment_length); breaks[-1] is the tuple
\* (dates[i], significance), so breaks[-1][1] is the last significance
CusumReports(i, min_segment_length, breaks) ==
    /\ i >= min_segment_length
    /\ \/ Len(breaks) = 0
       \/ RLeq(RInt(min_segment_length),
               RSub(RInt(i), breaks[Len(breaks)].significance))

\* one pass of the loop body, lines 464-475, at position st.i; cusum_pos
\* and cusum_neg are the arrays as far as they are filled
CusumStep(st, values, mean_val, std, min_segment_length) ==
    Only({
      IF (RLess(h, up) \/ RLess(h, down))
            /\ CusumReports(st.i, min_segment_length, st.breaks)
      THEN [i |-> st.i + 1,
            cusum_pos |-> Append(st.cusum_pos, RInt(0)),
            cusum_neg |-> Append(st.cusum_neg, RInt(0)),
            breaks |-> Append(st.breaks,
                          [position |-> st.i,
                           significance |-> RDiv(RMax(up, down), h)])]
      ELSE [i |-> st.i + 1,
            cusum_pos |-> Append(st.cusum_pos, up),
            cusum_neg |-> Append(st.cusum_neg, down),
            breaks |-> st.breaks]
      : h \in {RMul(RInt(4), std)},
        up \in {RMax(RInt(0), RSub(RSub(RAdd(st.cusum_pos[st.i], values[st.i + 1]),
                                        mean_val),
                                   RMul(Rat(1, 2), std)))},
        down \in {RMax(RInt(0), RSub(RAdd(RSub(st.cusum_neg[st.i], values[st.i + 1]),
                                          mean_val),
                                     RMul(Rat(1, 2), std)))} })

\* up to n passes of the loop
RECURSIVE CusumSteps(_, _, _, _, _, _)
CusumSteps(st, n, values, mean_val, std, min_segment_length) ==
    IF n = 0 \/ st.i >= Len(values) THEN st
    ELSE Only({ CusumSteps(s, n - 1, values, mean_val, std, min_segment_length)
                : s \in {CusumStep(st, values, mean_val, std, min_segment_length)} })

\* for i in range(1, len(values)), eight passes at a time
RECURSIVE CusumLoop(_, _, _, _, _)
CusumLoop(st, values, mean_val, std, min_segment_length) ==
    IF st.i >= Len(values) THEN st
    ELSE Only({ CusumLoop(s, values, mean_val, std, min_segment_length)
                : s \in {CusumSteps(st, 8, values, mean_val, std, min_segment_length)} })

\* TimeSeriesDecomposer._cusum_detection(series, min_segment_length)
CusumDetection(values, min_segment_length) ==
    IF Len(values) = 0
    THEN [i |-> 0, breaks |-> <<>>, cusum_pos |-> <<>>, cusum_neg |-> <<>>]
    ELSE Only({ CusumLoop([i |-> 1, cusum_pos |-> <<RInt(0)>>,
                           cusum_neg |-> <<RInt(0)>>, breaks |-> <<>>],
                          v, mean_val, std, min_segment_length)
                : v \in {Array(values)}, mean_val \in {SeriesMean(values)},
                  std \in {NpStd(values)} })

\* series.rolling(window).mean(): NaN until the window is full
RollingMean(values, window) ==
    Array([i \in 1..Len(values) |->
              IF i < window THEN NaN
              ELSE RDiv(RSumBetween(values, i - window + 1, i), RInt(window))])

\* Series.diff(): NaN for the first row and next to a NaN
Diff(values) ==
    Array([i \in 1..Len(values) |->
              IF i = 1 \/ IsNaN(values[i]) \/ IsNaN(values[i - 1]) THEN NaN
              ELSE RSub(values[i], values[i - 1])])

\* Series.abs()
SeriesAbs(values) ==
    Array([i \in 1..Len(values) |-> IF IsNaN(values[i]) THEN NaN ELSE RAbs(values[i])])

\* min(1.0, change_rate / threshold); a division by a zero threshold gives
\* inf, and min(1.0, inf) is 1.0
Significance(change_rate, threshold) ==
    IF threshold[1] = 0 THEN RInt(1)
    ELSE Only({ IF RLess(RInt(1), ratio) THEN RInt(1) ELSE ratio
                : ratio \in {RDiv(change_rate, threshold)} })

\* lines 493-502 and 524-534: the rows of the change series above its 95th
\* percentile, each with its significance; quantile skips the NaN rows, and
\* a threshold of NaN (no row left) is exceeded by no row
ChangePoints(change) ==
    Only({ IF Len(present) = 0 THEN <<>>
           ELSE Only({
                Only({ [k \in 1..Len(above) |->
                          [position |-> above[k] - 1, change_rate |-> change[above[k]],
                           threshold |-> threshold,
                           significance |-> Significance(change[above[k]], threshold)]]
                       : above \in {SelectSeq([i \in 1..Len(change) |-> i],
                                      LAMBDA i : ~IsNaN(change[i])
                                                 /\ RLess(threshold, change[i]))} })
                : threshold \in {Quantile(present, 95, 100)} })
           : present \in {SelectSeq(change, LAMBDA x : ~IsNaN(x))} })

WindowSize(min_segment_length) ==
    IF min_segment_length > MinWindowSize THEN min_segment_length ELSE MinWindowSize

\* TimeSeriesDecomposer._trend_change_detection(series, min_segment_length)
TrendChangeDetection(values, min_segment_length) ==
    ChangePoints(SeriesAbs(Diff(Diff(RollingMean(values,
                                        WindowSize(min_segment_length))))))

\* series.rolling(window).std().pct_change().abs(): the ratio of two
\* standard deviations is the root of the ratio of the variances.  NaN until
\* two windows are full; the series of the calls below have no window of
\* variance zero
RollingStdChange(values, window) ==
    Array([i \in 1..Len(values) |->
              IF i <= window THEN NaN
              ELSE Only({ IF IsNaN(now) \/ IsNaN(before) \/ before[1] = 0 THEN NaN
                          ELSE RAbs(RSub(RSqrt(RDiv(now, before)), RInt(1)))
                          : now \in {Var(SubSeq(values, i - window + 1, i))},
                            before \in {Var(SubSeq(values, i - window, i - 1))} })])

\* TimeSeriesDecomposer._variance_change_detection(series, min_segment_length)
VarianceChangeDetection(values, min_segment_length) ==
    ChangePoints(RollingStdChange(values, WindowSize(min_segment_length)))

(* The break detectors: the calls *)

\* min_segment_length of the calls
SegmentLengths == {5, 10, DefaultMinSegmentLength, DefaultMinSegmentLength + 5}

\* two-level series of 50 rows: `height` on the rows of the shape, 0
\* elsewhere (the population variance of each is a rational square)
LevelShapes == {"shift", "pulse", "burst", "plateau", "early"}
OnLevel(shape, t) ==
    CASE shape = "shift" -> t >= 25
      [] shape = "pulse" -> t = 40
      [] shape = "burst" -> t \in 30..34
      [] shape = "plateau" -> t \in 35..44
      [] OTHER -> t < 18
LevelSeries(shape, height) ==
    Array([k \in 1..50 |-> RInt(IF OnLevel(shape, k - 1) THEN height ELSE 0)])

\* series of 80 rows that are flat but for the jumps at rows 40, 50 and 60
JumpSets == {<<3, 6, 9>>, <<9, 6, 3>>, <<4, 4, 4>>, <<0, 0, 0>>, <<2, -6, 1>>}
JumpSeries(jumps, height) ==
    Array([k \in 1..80 |->
              RInt(height * ((IF k - 1 >= 40 THEN jumps[1] ELSE 0)
                             + (IF k - 1 >= 50 THEN jumps[2] ELSE 0)
                             + (IF k - 1 >= 60 THEN jumps[3] ELSE 0)))])

\* pulse trains: one pulse every `period` rows, 0 elsewhere, four pulses
PulseSets == {<<1, 2, 4, 4>>, <<2, 1, 3, 6>>, <<1, 1, 1, 1>>, <<4, 2, 1, 2>>, <<1, 3, 3, 9>>}
PulseTrain(pulses, period, height) ==
    Array([k \in 1..(3 * period + 10) |->
              RInt(IF (k - 1) % period = 0 THEN height * pulses[((k - 1) \div period) + 1]
                   ELSE 0)])

Heights == {1, 2}

ScanIdle == [pc |-> "idle", method |-> "none", values |-> <<>>,
             min_segment_length |-> 0, breaks |-> <<>>,
             cusum_pos |-> <<>>, cusum_neg |-> <<>>]

\* _cusum_detection(series, min_segment_length)
CusumCall ==
    /\ scan.pc = "idle"
    /\ \E shape \in LevelShapes, height \in Heights, msl \in SegmentLengths :
         LET values == LevelSeries(shape, height)
             r == CusumDetection(values, msl)
         IN  scan' = [pc |-> "done", method |-> "cusum", values |-> values,
                      min_segment_length |-> msl, breaks |-> r.breaks,
                      cusum_pos |-> r.cusum_pos, cusum_neg |-> r.cusum_neg]
    /\ UNCHANGED notScanVars

\* _variance_change_detection(series, min_segment_length)
VarianceCall ==
    /\ scan.pc = "idle"
    /\ \E pulses \in PulseSets, height \in Heights, msl \in SegmentLengths :
         LET values == PulseTrain(pulses, WindowSize(msl), height)
         IN  scan' = [ScanIdle EXCEPT !.pc = "done", !.method = "variance",
                         !.values = values, !.min_segment_length = msl,
                         !.breaks = VarianceChangeDetection(values, msl)]
    /\ UNCHANGED notScanVars

\* _trend_change_detection(series, min_segment_length)
TrendCall ==
    /\ scan.pc = "idle"
    /\ \E jumps \in JumpSets, height \in Heights, msl \in SegmentLengths :
         LET values == JumpSeries(jumps, height)
         IN  scan' = [ScanIdle EXCEPT !.pc = "done", !.method = "trend",
                         !.values = values, !.min_segment_length = msl,
                         !.breaks = TrendChangeDetection(values, msl)]
    /\ UNCHANGED notScanVars

\* the caller is done with the breaks
ScanConsumed ==
    /\ scan.pc = "done"
    /\ scan' = ScanIdle
    /\ UNCHANGED notScanVars

----------------------------------------------------------------------------
(* DataPreprocessor._scale_data on several columns, and inverse_transform  *)
(* The frame is the one step 5 of preprocess_data hands to _scale_data.    *)
(* A scaler object is named by its key in the dict scaler_types of lines   *)
(* 308-312, which is built once per call: every column scaled with one     *)
(* type in a call is handed the same object.                               *)

\* the columns of the frames below whose lower-cased name contains 'rate'
\* or 'ratio' (line 343)
RateColumns == {"exchange_rate"}

\* lines 343-346
FeatureScalerType(col) == IF col \in RateColumns THEN "standard" ELSE "robust"

\* Series.min() and Series.max()
ColumnMin(values) ==
    CHOOSE x \in {values[i] : i \in 1..Len(values)} :
        \A i \in 1..Len(values) : RLeq(x, values[i])
ColumnMax(values) ==
    CHOOSE x \in {values[i] : i \in 1..Len(values)} :
        \A i \in 1..Len(values) : RLeq(values[i], x)

\* scikit-learn replaces a scale of 0 by 1
HandleZerosInScale(scale) == IF scale = RInt(0) THEN RInt(1) ELSE scale

\* the state of a scaler object after fit(values).  MinMaxScaler holds
\* scale_ = 1 / (max - min) and min_ = -min * scale_; StandardScaler mean_ and
\* the population standard deviation; RobustScaler the median and the
\* interquartile range
FitScaler(scaler_type, values) ==
    IF scaler_type = "minmax"
    THEN Only({ [type |-> "minmax", scale |-> scale,
                 shift |-> RMul(RSub(RInt(0), ColumnMin(values)), scale)]
                : scale \in {RDiv(RInt(1), HandleZerosInScale(
                                RSub(ColumnMax(values), ColumnMin(values))))} })
    ELSE IF scaler_type = "standard"
    THEN [type |-> "standard", shift |-> SeriesMean(values),
          scale |-> HandleZerosInScale(RSqrt(PopVar(values)))]
    ELSE [type |-> "robust", shift |-> Median(values),
          scale |-> HandleZerosInScale(RSub(Quantile(values, 3, 4),
                                            Quantile(values, 1, 4)))]

\* scaler.transform(values)
Transform(params, values) ==
    Array([i \in 1..Len(values) |->
        IF params.type = "minmax"
        THEN RAdd(RMul(values[i], params.scale), params.shift)
        ELSE RDiv(RSub(values[i], params.shift), params.scale)])

\* scaler.inverse_transform(values)
InverseTransform(params, values) ==
    Array([i \in 1..Len(values) |->
        IF params.type = "minmax"
        THEN RDiv(RSub(values[i], params.shift), params.scale)
        ELSE RAdd(RMul(values[i], params.scale), params.shift)])

\* lines 319-335 and 348-361: the column is fitted and transformed with the
\* object of its type, and self.scalers[col] refers to that object
ScaleColumn(st, col, scaler_type) ==
    IF col \notin DOMAIN st.data THEN st
    ELSE Only({ [st EXCEPT
                  !.objects = DictSet(st.objects, scaler_type, params),
                  !.scaled = DictSet(st.scaled, col, Transform(params, st.data[col])),
                  !.scalers = DictSet(st.scalers, col,
                                [scaler |-> scaler_type, type |-> scaler_type,
                                 original_range |-> <<ColumnMin(st.data[col]),
                                                      ColumnMax(st.data[col])>>]),
                  !.summary = DictSet(st.summary, col, scaler_type)]
                : params \in {FitScaler(scaler_type, st.data[col])} })

\* the loop of lines 315-335
RECURSIVE ScaleTargets(_, _)
ScaleTargets(st, cols) ==
    IF cols = <<>> THEN st
    ELSE ScaleTargets(ScaleColumn(st, Head(cols), "minmax"), Tail(cols))

\* the loop of lines 338-361
RECURSIVE ScaleFeatures(_, _)
ScaleFeatures(st, cols) ==
    IF cols = <<>> THEN st
    ELSE ScaleFeatures(ScaleColumn(st, Head(cols), FeatureScalerType(Head(cols))),
                       Tail(cols))

\* DataPreprocessor._scale_data with self.scalers = entries before the call;
\* feature_columns = None is the empty list
ScaleDataColumns(df, target_columns, feature_columns, entries) ==
    ScaleFeatures(ScaleTargets([data |-> df, scaled |-> EmptyDict,
                                summary |-> EmptyDict, scalers |-> entries,
                                objects |-> EmptyDict],
                               target_columns),
                  feature_columns)

\* DataPreprocessor.inverse_transform
InverseTransformColumn(st, scaled_data, column_name) ==
    IF column_name \notin DOMAIN st.scalers
    THEN [outcome |-> "raised", values |-> <<>>]
    ELSE [outcome |-> "returned",
          values |-> InverseTransform(st.objects[st.scalers[column_name].scaler],
                                      scaled_data)]

(* Scaling: the calls *)

\* four rows per column; the rate column has a population variance that is
\* a square
PriceProfiles ==
    {<<RInt(1), RInt(2), RInt(3), RInt(5)>>, <<RInt(2), RInt(4), RInt(6), RInt(10)>>,
     <<RInt(4), RInt(4), RInt(4), RInt(4)>>}
RateProfiles ==
    {<<RInt(1), RInt(3), RInt(1), RInt(3)>>, <<RInt(2), RInt(2), RInt(2), RInt(2)>>}
VolumeProfiles ==
    {<<RInt(1), RInt(2), RInt(3), RInt(5)>>, <<RInt(8), RInt(0), RInt(4), RInt(4)>>}

ScaleFrames ==
    {[gasoline |-> g, diesel |-> d, exchange_rate |-> e, volume |-> v] :
        g \in PriceProfiles, d \in PriceProfiles, e \in RateProfiles,
        v \in VolumeProfiles}

TargetLists ==
    {<<"gasoline">>, <<"gasoline", "diesel">>, <<"diesel", "gasoline">>,
     <<"gasoline", "kerosene">>}
FeatureLists ==
    {<<>>, <<"exchange_rate">>, <<"exchange_rate", "volume">>, <<"volume", "diesel">>}
InverseColumns == {"gasoline", "diesel", "exchange_rate", "volume", "kerosene"}

NoRestored == [outcome |-> "none", values |-> <<>>]

RescaleIdle ==
    [pc |-> "idle", data |-> EmptyDict, scaled |-> EmptyDict, summary |-> EmptyDict,
     scalers |-> EmptyDict, objects |-> EmptyDict, target_columns |-> <<>>,
     feature_columns |-> <<>>, column_name |-> "none", restored |-> NoRestored]

\* DataPreprocessor(config)._scale_data(df, target_columns, feature_columns)
ScaleCall ==
    /\ rescale.pc = "idle"
    /\ \E df \in ScaleFrames, target_columns \in TargetLists,
          feature_columns \in FeatureLists :
         LET st == ScaleDataColumns(df, target_columns, feature_columns,
                                    rescale.scalers)
         IN  rescale' = [pc |-> "scaled", data |-> st.data, scaled |-> st.scaled,
                         summary |-> st.summary, scalers |-> st.scalers,
                         objects |-> st.objects, target_columns |-> target_columns,
                         feature_columns |-> feature_columns,
                         column_name |-> "none", restored |-> NoRestored]
    /\ UNCHANGED notRescaleVars

\* inverse_transform(df_processed[column_name + '_scaled'].values, column_name)
\* for a column of the frame; a column that was not scaled has no scaled
\* values and the caller hands in the column itself
InverseCall ==
    /\ rescale.pc = "scaled"
    /\ \E column_name \in InverseColumns :
         LET scaled_data == IF column_name \in DOMAIN rescale.scaled
                            THEN rescale.scaled[column_name]
                            ELSE IF column_name \in DOMAIN rescale.data
                            THEN rescale.data[column_name] ELSE <<RInt(0)>>
         IN  rescale' = [rescale EXCEPT
                           !.pc = "inverted", !.column_name = column_name,
                           !.restored = InverseTransformColumn(rescale, scaled_data,
                                                               column_name)]
    /\ UNCHANGED notRescaleVars

\* the caller is done; a new preprocessor is made for the next frame
RescaleConsumed ==
    /\ rescale.pc = "inverted"
    /\ rescale' = RescaleIdle
    /\ UNCHANGED notRescaleVars

----------------------------------------------------------------------------
(* RegionalAccuracyCalculator (regional_accuracy_calculator.py)            *)
(* A date is the number of days after base_date; the structure of          *)
(* _initialize_actual_data_structure holds the days 1..7.  A price is a    *)
(* rational; PyNone is None.  datetime.now() stamps are kept as a flag.    *)

PyNone == <<>>

\* the keys of self.regions (lines 18-36)
RegionCodes ==
    {"seoul", "busan", "daegu", "incheon", "gwangju", "daejeon", "ulsan", "gyeonggi",
     "gangwon", "chungbuk", "chungnam", "jeonbuk", "jeonnam", "gyeongbuk",
     "gyeongnam", "jeju", "sejong"}

\* range(1, 8) of line 63
ForecastDays == 1..7

\* lines 76-84
EmptyRegionData ==
    [gasoline |-> PyNone, diesel |-> PyNone, gasoline_forecast |-> PyNone,
     diesel_forecast |-> PyNone, gasoline_accuracy |-> PyNone,
     diesel_accuracy |-> PyNone]

\* RegionalAccuracyCalculator._initialize_actual_data_structure
InitializeActualDataStructure ==
    [last_updated |-> FALSE,
     daily_actual |-> [day \in ForecastDays |->
         [date_label |-> day, target_date |-> day, is_available |-> FALSE,
          updated_at |-> FALSE,
          regions |-> [region \in RegionCodes |-> EmptyRegionData]]]]

\* RegionalAccuracyCalculator.get_forecast_price on self.forecast_data =
\* forecasts: region -> daily_forecast list
GetForecastPrice(forecasts, region, fuel_type, days_after) ==
    IF region \in DOMAIN forecasts
          /\ 0 <= days_after - 1 /\ days_after - 1 < Len(forecasts[region])
    THEN forecasts[region][days_after][fuel_type]
    ELSE PyNone

\* RegionalAccuracyCalculator.calculate_accuracy
CalculateAccuracy(predicted, actual) ==
    IF actual = RInt(0) THEN RInt(0)
    ELSE Only({ Round(RMax(RInt(0), RSub(RInt(100), error_rate)), 100)
                : error_rate \in {RMul(RDiv(RAbs(RSub(predicted, actual)), actual),
                                       RInt(100))} })

\* RegionalAccuracyCalculator.update_actual_data: the return value and
\* self.actual_data after the call
UpdateActualData(actual_data, forecasts, date, region, gasoline_price, diesel_price) ==
    IF date \notin DOMAIN actual_data.daily_actual
    THEN [ret |-> FALSE, actual_data |-> actual_data]
    ELSE IF region \notin RegionCodes
    THEN [ret |-> FALSE, actual_data |-> actual_data]
    ELSE LET gasoline_forecast == GetForecastPrice(forecasts, region, "gasoline", date)
             diesel_forecast == GetForecastPrice(forecasts, region, "diesel", date)
             old == actual_data.daily_actual[date].regions[region]
             region_data ==
                 [gasoline |-> gasoline_price, diesel |-> diesel_price,
                  gasoline_forecast |-> gasoline_forecast,
                  diesel_forecast |-> diesel_forecast,
                  gasoline_accuracy |->
                      IF gasoline_forecast # PyNone
                      THEN CalculateAccuracy(gasoline_forecast, gasoline_price)
                      ELSE old.gasoline_accuracy,
                  diesel_accuracy |->
                      IF diesel_forecast # PyNone
                      THEN CalculateAccuracy(diesel_forecast, diesel_price)
                      ELSE old.diesel_accuracy]
         IN  [ret |-> TRUE,
              actual_data |->
                 [actual_data EXCEPT
                    !.last_updated = TRUE,
                    !.daily_actual[date].regions[region] = region_data,
                    !.daily_actual[date].is_available = TRUE,
                    !.daily_actual[date].updated_at = TRUE]]

\* line 210: the days the summary of a region lists
DaysListedFor(actual_data, region) ==
    {day \in DOMAIN actual_data.daily_actual :
        /\ actual_data.daily_actual[day].is_available
        /\ region \in DOMAIN actual_data.daily_actual[day].regions}

\* lines 235-239: round(sum(xs) / len(xs), 2) over the values that are not None
OverallAccuracy(values) ==
    LET given == SelectSeq(values, LAMBDA v : v # PyNone)
    IN  IF given = <<>> THEN PyNone ELSE Round(SeriesMean(given), 100)

\* RegionalAccuracyCalculator.get_regional_accuracy_summary; the days in the
\* order of the dict
GetRegionalAccuracySummary(actual_data, region) ==
    LET days == DaysListedFor(actual_data, region)
        listed == SelectSeq([d \in ForecastDays |-> d], LAMBDA d : d \in days)
        data(d) == actual_data.daily_actual[d].regions[region]
    IN  [region_name |-> IF region \in RegionCodes THEN <<"name", region>> ELSE <<region>>,
         region_code |-> region,
         daily_accuracy |-> [d \in days |->
             [date |-> d,
              gasoline_accuracy |-> data(d).gasoline_accuracy,
              diesel_accuracy |-> data(d).diesel_accuracy,
              gasoline_predicted |-> data(d).gasoline_forecast,
              gasoline_actual |-> data(d).gasoline,
              diesel_predicted |-> data(d).diesel_forecast,
              diesel_actual |-> data(d).diesel]],
         overall_gasoline_accuracy |->
             OverallAccuracy([k \in 1..Len(listed) |-> data(listed[k]).gasoline_accuracy]),
         overall_diesel_accuracy |->
             OverallAccuracy([k \in 1..Len(listed) |-> data(listed[k]).diesel_accuracy]),
         available_days |-> Cardinality(days)]

(* RegionalAccuracyCalculator: the calls *)

\* 7day_regional_forecast.json: absent, with seven daily forecasts for two
\* regions, or with a list that ends after the first day
DailyForecast == [gasoline |-> RInt(1700), diesel |-> RInt(1600)]
ForecastFiles ==
    {EmptyDict,
     [region \in {"seoul", "busan"} |-> [day \in ForecastDays |-> DailyForecast]],
     [region \in {"seoul"} |-> <<DailyForecast>>]}

UpdateDates == {0, 1, 2, 8}
UpdateRegions == {"seoul", "busan", "tokyo"}
GasolinePrices == {RInt(1700), RInt(1717), RInt(0)}
DieselPrices == {RInt(1600)}

NoCalcCall == [op |-> "none"]

CalcIdle ==
    [forecasts |-> EmptyDict, actual_data |-> InitializeActualDataStructure,
     entered |-> EmptyDict, last |-> NoCalcCall]

\* update_actual_data(date, region, gasoline_price, diesel_price); the days
\* and regions for which prices were entered are remembered in 'entered'
CalcUpdate ==
    /\ calc.last.op = "none"
    /\ \E date \in UpdateDates, region \in UpdateRegions,
       gasoline_price \in GasolinePrices, diesel_price \in DieselPrices :
        LET r == UpdateActualData(calc.actual_data, calc.forecasts, date, region,
                                  gasoline_price, diesel_price)
        IN  calc' = [calc EXCEPT
                          !.actual_data = r.actual_data,
                          !.entered = IF r.ret
                                      THEN DictSet(calc.entered, <<date, region>>,
                                                   <<gasoline_price, diesel_price>>)
                                      ELSE calc.entered,
                          !.last = [op |-> "update", date |-> date, region |-> region,
                                    ret |-> r.ret, before |-> calc.actual_data]]
    /\ UNCHANGED notCalcVars

\* get_regional_accuracy_summary(region)
CalcSummary ==
    /\ calc.last.op = "none"
    /\ \E region \in UpdateRegions :
          calc' = [calc EXCEPT
                     !.last = [op |-> "summary", region |-> region,
                               ret |-> GetRegionalAccuracySummary(calc.actual_data,
                                                                  region)]]
    /\ UNCHANGED notCalcVars

\* the caller has read what the call returned
CalcConsumed ==
    /\ calc.last.op # "none"
    /\ calc' = [calc EXCEPT !.last = NoCalcCall]
    /\ UNCHANGED notCalcVars

----------------------------------------------------------------------------
(* Specifications: one per component, the other components at rest *)

NoCall == CallRecord("none", "ok", NoneObj, FALSE, 0)
NoFits == [count |-> 0, last |-> "none", everOk |-> FALSE]
ConfigAtRest == [seasonal |-> FALSE, information_criterion |-> "aic",
                 auto_arima |-> FALSE]

ArimaInit ==
    /\ config \in [seasonal : BOOLEAN, information_criterion : {"aic", "bic"},
                   auto_arima : BOOLEAN]
    /\ model = NoneObj
    /\ model_result = NoneObj
    /\ is_fitted = FALSE
    /\ fitHistory = NoFits
    /\ lastCall = NoCall
    /\ TENSORFLOW_AVAILABLE = FALSE
    /\ models = EmptyDict
    /\ scalers = {}
    /\ feature_importance = {}
    /\ model_performance = EmptyDict
    /\ fc = FcIdle
    /\ lastPredict = NoPredict
    /\ lastForecast = NoForecast
    /\ batch = BatchIdle
    /\ lastBatch = NoBatch
    /\ prep = PrepIdle
    /\ pre = PreIdle
    /\ dec = DecIdle
    /\ detector = OutIdle
    /\ backtest = BacktestIdle
    /\ units = UnitsIdle
    /\ scan = ScanIdle
    /\ rescale = RescaleIdle
    /\ calc = CalcIdle

ArimaNext == Fit \/ Forecast

EnsembleInit ==
    /\ TENSORFLOW_AVAILABLE \in BOOLEAN
    /\ models = EmptyDict
    /\ scalers = {}
    /\ feature_importance = {}
    /\ model_performance = EmptyDict
    /\ fc = FcIdle
    /\ lastPredict = NoPredict
    /\ lastForecast = NoForecast
    /\ config = ConfigAtRest
    /\ model = NoneObj
    /\ model_result = NoneObj
    /\ is_fitted = FALSE
    /\ fitHistory = NoFits
    /\ lastCall = NoCall
    /\ batch = BatchIdle
    /\ lastBatch = NoBatch
    /\ prep = PrepIdle
    /\ pre = PreIdle
    /\ dec = DecIdle
    /\ detector = OutIdle
    /\ backtest = BacktestIdle
    /\ units = UnitsIdle
    /\ scan = ScanIdle
    /\ rescale = RescaleIdle
    /\ calc = CalcIdle

EnsembleNext ==
    \/ ForecastStart
    \/ ForecastFuel
    \/ ForecastReturn
    \/ EnsemblePredictCall
    \/ LoadModel
    \/ ResultConsumed

BatchInit ==
    /\ batch = BatchIdle
    /\ lastBatch = NoBatch
    /\ config = ConfigAtRest
    /\ model = NoneObj
    /\ model_result = NoneObj
    /\ is_fitted = FALSE
    /\ fitHistory = NoFits
    /\ lastCall = NoCall
    /\ TENSORFLOW_AVAILABLE = FALSE
    /\ models = EmptyDict
    /\ scalers = {}
    /\ feature_importance = {}
    /\ model_performance = EmptyDict
    /\ fc = FcIdle
    /\ lastPredict = NoPredict
    /\ lastForecast = NoForecast
    /\ prep = PrepIdle
    /\ pre = PreIdle
    /\ dec = DecIdle
    /\ detector = OutIdle
    /\ backtest = BacktestIdle
    /\ units = UnitsIdle
    /\ scan = ScanIdle
    /\ rescale = RescaleIdle
    /\ calc = CalcIdle

BatchNext ==
    \/ GenerateForecastStart
    \/ ForecastUnit
    \/ GenerateForecastReturn
    \/ BatchResultConsumed

SpecArima == ArimaInit /\ [][ArimaNext]_vars

SpecEnsemble == EnsembleInit /\ [][EnsembleNext]_vars

SpecBatch == BatchInit /\ [][BatchNext]_vars

PrepareInit ==
    /\ prep = PrepIdle
    /\ config = ConfigAtRest
    /\ model = NoneObj
    /\ model_result = NoneObj
    /\ is_fitted = FALSE
    /\ fitHistory = NoFits
    /\ lastCall = NoCall
    /\ TENSORFLOW_AVAILABLE = FALSE
    /\ models = EmptyDict
    /\ scalers = {}
    /\ feature_importance = {}
    /\ model_performance = EmptyDict
    /\ fc = FcIdle
    /\ lastPredict = NoPredict
    /\ lastForecast = NoForecast
    /\ batch = BatchIdle
    /\ lastBatch = NoBatch
    /\ pre = PreIdle
    /\ dec = DecIdle
    /\ detector = OutIdle
    /\ backtest = BacktestIdle
    /\ units = UnitsIdle
    /\ scan = ScanIdle
    /\ rescale = RescaleIdle
    /\ calc = CalcIdle

PrepareNext == PrepareCall \/ PrepareAgain \/ PrepareConsumed

SpecPrepare == PrepareInit /\ [][PrepareNext]_vars

PreprocessorInit ==
    /\ pre = PreIdle
    /\ config = ConfigAtRest
    /\ model = NoneObj
    /\ model_result = NoneObj
    /\ is_fitted = FALSE
    /\ fitHistory = NoFits
    /\ lastCall = NoCall
    /\ TENSORFLOW_AVAILABLE = FALSE
    /\ models = EmptyDict
    /\ scalers = {}
    /\ feature_importance = {}
    /\ model_performance = EmptyDict
    /\ fc = FcIdle
    /\ lastPredict = NoPredict
    /\ lastForecast = NoForecast
    /\ batch = BatchIdle
    /\ lastBatch = NoBatch
    /\ prep = PrepIdle
    /\ dec = DecIdle
    /\ detector = OutIdle
    /\ backtest = BacktestIdle
    /\ units = UnitsIdle
    /\ scan = ScanIdle
    /\ rescale = RescaleIdle
    /\ calc = CalcIdle

PreprocessorNext == PreprocessCall \/ PreprocessConsumed

SpecPreprocessor == PreprocessorInit /\ [][PreprocessorNext]_vars

DecomposerInit ==
    /\ dec = DecIdle
    /\ config = ConfigAtRest
    /\ model = NoneObj
    /\ model_result = NoneObj
    /\ is_fitted = FALSE
    /\ fitHistory = NoFits
    /\ lastCall = NoCall
    /\ TENSORFLOW_AVAILABLE = FALSE
    /\ models = EmptyDict
    /\ scalers = {}
    /\ feature_importance = {}
    /\ model_performance = EmptyDict
    /\ fc = FcIdle
    /\ lastPredict = NoPredict
    /\ lastForecast = NoForecast
    /\ batch = BatchIdle
    /\ lastBatch = NoBatch
    /\ prep = PrepIdle
    /\ pre = PreIdle
    /\ detector = OutIdle
    /\ backtest = BacktestIdle
    /\ units = UnitsIdle
    /\ scan = ScanIdle
    /\ rescale = RescaleIdle
    /\ calc = CalcIdle

DecomposerNext == DecomposeCall \/ DetectBreaksCall \/ DecomposerConsumed

SpecDecomposer == DecomposerInit /\ [][DecomposerNext]_vars

OutlierInit ==
    /\ detector = OutIdle
    /\ config = ConfigAtRest
    /\ model = NoneObj
    /\ model_result = NoneObj
    /\ is_fitted = FALSE
    /\ fitHistory = NoFits
    /\ lastCall = NoCall
    /\ TENSORFLOW_AVAILABLE = FALSE
    /\ models = EmptyDict
    /\ scalers = {}
    /\ feature_importance = {}
    /\ model_performance = EmptyDict
    /\ fc = FcIdle
    /\ lastPredict = NoPredict
    /\ lastForecast = NoForecast
    /\ batch = BatchIdle
    /\ lastBatch = NoBatch
    /\ prep = PrepIdle
    /\ pre = PreIdle
    /\ dec = DecIdle
    /\ backtest = BacktestIdle
    /\ units = UnitsIdle
    /\ scan = ScanIdle
    /\ rescale = RescaleIdle
    /\ calc = CalcIdle

OutlierNext == DetectCall \/ DetectAgain \/ DetectorConsumed

SpecOutlier == OutlierInit /\ [][OutlierNext]_vars

BacktestInit ==
    /\ backtest = BacktestIdle
    /\ config = ConfigAtRest
    /\ model = NoneObj
    /\ model_result = NoneObj
    /\ is_fitted = FALSE
    /\ fitHistory = NoFits
    /\ lastCall = NoCall
    /\ TENSORFLOW_AVAILABLE = FALSE
    /\ models = EmptyDict
    /\ scalers = {}
    /\ feature_importance = {}
    /\ model_performance = EmptyDict
    /\ fc = FcIdle
    /\ lastPredict = NoPredict
    /\ lastForecast = NoForecast
    /\ batch = BatchIdle
    /\ lastBatch = NoBatch
    /\ prep = PrepIdle
    /\ pre = PreIdle
    /\ dec = DecIdle
    /\ detector = OutIdle
    /\ units = UnitsIdle
    /\ scan = ScanIdle
    /\ rescale = RescaleIdle
    /\ calc = CalcIdle

BacktestNext == ValidateCall \/ BacktestConsumed

SpecBacktest == BacktestInit /\ [][BacktestNext]_vars

UnitsInit ==
    /\ units = UnitsIdle
    /\ TENSORFLOW_AVAILABLE \in BOOLEAN
    /\ models = EmptyDict
    /\ scalers = {}
    /\ feature_importance = {}
    /\ model_performance = EmptyDict
    /\ fc = FcIdle
    /\ lastPredict = NoPredict
    /\ lastForecast = NoForecast
    /\ config = ConfigAtRest
    /\ model = NoneObj
    /\ model_result = NoneObj
    /\ is_fitted = FALSE
    /\ fitHistory = NoFits
    /\ lastCall = NoCall
    /\ batch = BatchIdle
    /\ lastBatch = NoBatch
    /\ prep = PrepIdle
    /\ pre = PreIdle
    /\ dec = DecIdle
    /\ detector = OutIdle
    /\ backtest = BacktestIdle
    /\ scan = ScanIdle
    /\ rescale = RescaleIdle
    /\ calc = CalcIdle

UnitsNext ==
    UnitsStart \/ UnitTrain \/ UnitPredict \/ UnitForecastRegionFuel \/ UnitsConsumed

SpecUnits == UnitsInit /\ [][UnitsNext]_vars

ScanInit ==
    /\ scan = ScanIdle
    /\ config = ConfigAtRest
    /\ model = NoneObj
    /\ model_result = NoneObj
    /\ is_fitted = FALSE
    /\ fitHistory = NoFits
    /\ lastCall = NoCall
    /\ TENSORFLOW_AVAILABLE = FALSE
    /\ models = EmptyDict
    /\ scalers = {}
    /\ feature_importance = {}
    /\ model_performance = EmptyDict
    /\ fc = FcIdle
    /\ lastPredict = NoPredict
    /\ lastForecast = NoForecast
    /\ batch = BatchIdle
    /\ lastBatch = NoBatch
    /\ prep = PrepIdle
    /\ pre = PreIdle
    /\ dec = DecIdle
    /\ detector = OutIdle
    /\ backtest = BacktestIdle
    /\ units = UnitsIdle
    /\ rescale = RescaleIdle
    /\ calc = CalcIdle

ScanNext == CusumCall \/ VarianceCall \/ TrendCall \/ ScanConsumed

SpecScan == ScanInit /\ [][ScanNext]_vars

RescaleInit ==
    /\ rescale = RescaleIdle
    /\ config = ConfigAtRest
    /\ model = NoneObj
    /\ model_result = NoneObj
    /\ is_fitted = FALSE
    /\ fitHistory = NoFits
    /\ lastCall = NoCall
    /\ TENSORFLOW_AVAILABLE = FALSE
    /\ models = EmptyDict
    /\ scalers = {}
    /\ feature_importance = {}
    /\ model_performance = EmptyDict
    /\ fc = FcIdle
    /\ lastPredict = NoPredict
    /\ lastForecast = NoForecast
    /\ batch = BatchIdle
    /\ lastBatch = NoBatch
    /\ prep = PrepIdle
    /\ pre = PreIdle
    /\ dec = DecIdle
    /\ detector = OutIdle
    /\ backtest = BacktestIdle
    /\ units = UnitsIdle
    /\ scan = ScanIdle
    /\ calc = CalcIdle

RescaleNext == ScaleCall \/ InverseCall \/ RescaleConsumed

SpecRescale == RescaleInit /\ [][RescaleNext]_vars

CalcInit ==
    /\ calc \in {[CalcIdle EXCEPT !.forecasts = f] : f \in ForecastFiles}
    /\ config = ConfigAtRest
    /\ model = NoneObj
    /\ model_result = NoneObj
    /\ is_fitted = FALSE
    /\ fitHistory = NoFits
    /\ lastCall = NoCall
    /\ TENSORFLOW_AVAILABLE = FALSE
    /\ models = EmptyDict
    /\ scalers = {}
    /\ feature_importance = {}
    /\ model_performance = EmptyDict
    /\ fc = FcIdle
    /\ lastPredict = NoPredict
    /\ lastForecast = NoForecast
    /\ batch = BatchIdle
    /\ lastBatch = NoBatch
    /\ prep = PrepIdle
    /\ pre = PreIdle
    /\ dec = DecIdle
    /\ detector = OutIdle
    /\ backtest = BacktestIdle
    /\ units = UnitsIdle
    /\ scan = ScanIdle
    /\ rescale = RescaleIdle

CalcNext == CalcUpdate \/ CalcSummary \/ CalcConsumed

SpecCalc == CalcInit /\ [][CalcNext]_vars

----------------------------------------------------------------------------
(* ARIMAForecaster: claims *)

\* C1: on a forecaster on which no fit call has ever completed successfully,
\* every forecast call fails with an error and returns no forecast result.
C1_ForecastRequiresFit ==
    (lastCall.op = "forecast" /\ ~fitHistory.everOk)
        => (lastCall.outcome = "raised" /\ lastCall.ret = NoneObj)

\* C1 witness: a forecast call refused on a forecaster whose only fit calls
\* raised, one of them after self.model was already assigned
C1_Witness ==
    /\ lastCall.op = "forecast"
    /\ lastCall.outcome = "raised"
    /\ ~fitHistory.everOk
    /\ fitHistory.count > 0
    /\ model # NoneObj

\* C2 (as claimed): a forecast call is served only if the most recent fit call
\* completed successfully, and then it uses exactly the model recorded in that
\* fit's result.
C2_ForecastOnlyAfterLastFitOk ==
    (lastCall.op = "forecast" /\ lastCall.outcome = "ok")
        => (fitHistory.last = "ok" /\ lastCall.ret.by = model_result.model)

\* C3 (as claimed): when the order search yields no usable model, fit returns
\* a model result whose recorded order is (1,1,1) and the forecaster ends in
\* the fitted state, instead of the error reaching the caller.
C3_SearchFailureRecovered ==
    (lastCall.op = "fit" /\ lastCall.searchFailed)
        => (/\ lastCall.outcome = "ok"
            /\ lastCall.ret.order = DefaultOrder
            /\ is_fitted)

----------------------------------------------------------------------------
(* OilPriceForecaster: claims *)

\* C4 (as claimed): for every requested horizon N >= 1, each fuel-type entry
\* produced by forecast(df, N) has exactly N dates, N point prices and lower
\* and upper confidence sequences of N values each.
C4_EntryLengthsEqualHorizon ==
    lastForecast.outcome = "returned" =>
        \A f \in DOMAIN lastForecast.forecasts :
            LET e == lastForecast.forecasts[f]
            IN /\ Len(e.dates) = lastForecast.horizon
               /\ Len(e.prices) = lastForecast.horizon
               /\ Len(e.lower) = lastForecast.horizon
               /\ Len(e.upper) = lastForecast.horizon

\* the models of the last ensemble_predict call that have a recorded MAE
Recorded(name) ==
    /\ lastPredict.target \in DOMAIN model_performance
    /\ name \in DOMAIN model_performance[lastPredict.target]

\* 1 / (1 + MAE) of a model with a recorded MAE
InverseError(name) ==
    RDiv(RInt(1), RInt(1 + model_performance[lastPredict.target][name].mae))

\* C5: for any non-empty set of surviving component models the weights used
\* by ensemble_predict are each >= 0 and sum to 1, and when every survivor has
\* a recorded MAE >= 0, weight_i = (1/(1+MAE_i)) / sum_j (1/(1+MAE_j)).
C5_WeightsNormalized ==
    (lastPredict.outcome = "returned" /\ lastPredict.names # <<>>) =>
        LET w == lastPredict.weights
            names == lastPredict.names
        IN /\ Len(w) = Len(names)
           /\ \A i \in 1..Len(w) : RLeq(RInt(0), w[i])
           /\ RSum(w) = RInt(1)
           /\ (\A i \in 1..Len(names) : Recorded(names[i])) =>
                 \A i \in 1..Len(names) :
                    w[i] = RDiv(InverseError(names[i]),
                                RSum([j \in 1..Len(names) |-> InverseError(names[j])]))

\* C5 witness: a call returned with at least two survivors whose recorded
\* MAEs differ, so that their weights differ
C5_Witness ==
    /\ lastPredict.outcome = "returned"
    /\ Len(lastPredict.names) >= 2
    /\ \A i \in 1..Len(lastPredict.names) : Recorded(lastPredict.names[i])
    /\ \E i, j \in 1..Len(lastPredict.names) :
          lastPredict.weights[i] # lastPredict.weights[j]

\* C6 (as claimed): every model without a recorded performance gets the
\* pre-normalization weight exactly 1.0, whether or not other models of the
\* same target have a record.
C6_UnrecordedWeightIsOne ==
    \A i \in 1..Len(lastPredict.names) :
        ~Recorded(lastPredict.names[i]) => lastPredict.raw[i] = RInt(1)

\* whether ensemble_predict has a prediction step for a model of this name
Predictable(name) ==
    name \in SklearnNames \/ (name = "lstm" /\ TENSORFLOW_AVAILABLE)

\* C7 (as claimed): if a component model's prediction step fails and at least
\* one other model can predict, the call still returns a combined forecast
\* from which the failing model is left out.
C7_FailingModelLeftOut ==
    (/\ lastPredict.failed # "none"
     /\ \E n \in lastPredict.given \ {lastPredict.failed} : Predictable(n))
        => (/\ lastPredict.outcome = "returned"
            /\ lastPredict.prediction # <<>>
            /\ \A i \in 1..Len(lastPredict.names) :
                  lastPredict.names[i] # lastPredict.failed)

\* C8 (as claimed): when no component model survives an ensemble_predict call
\* (every model given is skipped or fails), the call returns the empty array
\* and forecast emits no entry for that fuel type.
C8_NoSurvivorGivesEmptyResult ==
    (/\ lastPredict.outcome # "none"
     /\ \A n \in lastPredict.given : ~Predictable(n) \/ n = lastPredict.failed)
        => (/\ lastPredict.outcome = "returned"
            /\ lastPredict.prediction = <<>>
            /\ lastPredict.target \notin DOMAIN fc.forecasts
            /\ lastPredict.target \notin DOMAIN lastForecast.forecasts)

\* the weighted average, with the ensemble weights, of the component models'
\* values at step k; a component returns point predictions only, so its lower
\* and its upper bound at a step are its prediction at that step
WeightedComponentBound(k) ==
    RSum([i \in 1..Len(lastPredict.preds) |->
             RMul(lastPredict.weights[i], lastPredict.preds[i][k])])

\* C9 (as claimed): the lower and upper bounds returned with the combined
\* forecast are, at every step, the weighted average of the component models'
\* lower and upper bounds at that step.
C9_BoundsAreWeightedAverage ==
    (/\ lastPredict.outcome = "returned"
     /\ lastPredict.prediction # <<>>
     /\ lastPredict.target \in DOMAIN fc.forecasts)
        => LET e == fc.forecasts[lastPredict.target]
           IN \A k \in 1..Len(e.lower) :
                 /\ e.lower[k] = WeightedComponentBound(k)
                 /\ e.upper[k] = WeightedComponentBound(k)

----------------------------------------------------------------------------
(* SimpleOilPriceForecaster: claims *)

\* C10 (as claimed): in a batch over several (region, fuel-type) units, an
\* error raised while processing one unit never aborts the batch: every other
\* unit is still processed and the batch returns a result.
C10_UnitErrorDoesNotAbortBatch ==
    lastBatch.failed # 0 =>
        /\ lastBatch.outcome = "returned"
        /\ lastBatch.attempted = NumUnits

----------------------------------------------------------------------------
(* Series preparation: claims *)

\* C11 (as claimed): prepare is idempotent: for every series with at least
\* min_length non-missing observations, preparing the prepared series again
\* returns it value for value.
C11_PrepareIdempotent ==
    (prep.passes = 2 /\ prep.outcome = "returned") =>
        prep.output = prep.first

\* C12 (as claimed): preparation rejects every series with fewer than 100
\* non-missing observations, and every series it returns has at least 100
\* observations, in the decomposer and in the ARIMA forecaster alike.
C12_ShortSeriesRejected ==
    prep.passes = 1 =>
        /\ NonMissing(prep.input) < DecomposerMinLength => prep.outcome = "raised"
        /\ prep.outcome = "returned" =>
              Len(prep.output.values) >= DecomposerMinLength

----------------------------------------------------------------------------
(* DataPreprocessor: claims *)

\* C13 (as claimed): after preprocess_data, for every value of covid_handling
\* and every input, the resulting series has unique, strictly increasing
\* timestamps with exactly one row for every calendar day between its first
\* and its last timestamp.
C13_DailyGapFree ==
    (pre.pc = "done" /\ pre.result.outcome = "returned") =>
        LET index == pre.result.processed_data.index
        IN \A i \in 1..(Len(index) - 1) : index[i + 1] = index[i] + 1

\* whether the timestamps of a frame are strictly increasing
StrictlyIncreasing(index) ==
    \A i \in 1..(Len(index) - 1) : index[i] < index[i + 1]

\* C14 (as claimed): a series whose timestamps are duplicated or not in
\* increasing order is rejected with an error by the preparation step; it is
\* never repaired and passed on.
C14_InvalidSeriesRejected ==
    (pre.pc = "done" /\ ~StrictlyIncreasing(pre.input.index)) =>
        pre.result.outcome = "raised"

----------------------------------------------------------------------------
(* TimeSeriesDecomposer: claims *)

\* the caller asked for an additive method: stl, hp, advanced, or classical
\* with model=additive
AdditiveRequest ==
    \/ dec.method \in {"stl", "hp", "advanced"}
    \/ dec.method = "classical" /\ dec.model_arg = "additive"

\* C15 (as claimed): for every series decompose_series accepts and every
\* additive method, trend + seasonal + residual equals the caller's value at
\* every timestamp of the caller's series that has one, the values outside
\* the 1st-99th percentile band included.
C15_AdditiveReconstruction ==
    (dec.pc = "done" /\ dec.op = "decompose_series" /\ dec.outcome = "returned"
        /\ AdditiveRequest) =>
        \A i \in 1..Len(dec.input.values) :
            ~IsNaN(dec.input.values[i]) =>
                \E k \in 1..Len(dec.result.original.index) :
                    /\ dec.result.original.index[k] = dec.input.index[i]
                    /\ RAdd(RAdd(dec.result.trend[k], dec.result.seasonal[k]),
                            dec.result.residual[k]) = dec.input.values[i]

\* Var(component) / (Var(component) + Var(residual)), 0 when the sum is 0
ExpectedStrength(component, residual) ==
    Only({ IF RAdd(cv, rv) = RInt(0) THEN RInt(0) ELSE RDiv(cv, RAdd(cv, rv))
           : cv \in {Var(component)}, rv \in {Var(residual)} })

\* C16: the seasonal and the trend strength of a returned decomposition lie
\* in [0, 1], equal Var(component) / (Var(component) + Var(residual)) when
\* that sum is not 0, and are 0 when it is.
C16_StrengthBounds ==
    (dec.pc = "done" /\ dec.op = "decompose_series" /\ dec.outcome = "returned") =>
        /\ RLeq(RInt(0), dec.result.seasonal_strength)
        /\ RLeq(dec.result.seasonal_strength, RInt(1))
        /\ RLeq(RInt(0), dec.result.trend_strength)
        /\ RLeq(dec.result.trend_strength, RInt(1))
        /\ dec.result.seasonal_strength =
              ExpectedStrength(dec.result.seasonal, dec.result.residual)
        /\ dec.result.trend_strength =
              ExpectedStrength(dec.result.trend, dec.result.residual)

\* a decomposition was returned whose seasonal strength is strictly between
\* 0 and 1 and whose trend strength is not 0
C16_Witness ==
    /\ dec.pc = "done" /\ dec.op = "decompose_series" /\ dec.outcome = "returned"
    /\ RLess(RInt(0), dec.result.seasonal_strength)
    /\ RLess(dec.result.seasonal_strength, RInt(1))
    /\ RLess(RInt(0), dec.result.trend_strength)

\* the three detectors' outputs, tagged, one after the other
Concatenation ==
    Tagged(dec.detectors.cusum, "level_shift")
    \o Tagged(dec.detectors.variance, "variance_change")
    \o Tagged(dec.detectors.trend, "trend_change")

Occurrences(seq, e) == Cardinality({i \in 1..Len(seq) : seq[i] = e})

\* C20: detect_structural_breaks returns every break of the three detectors
\* as often as they reported it, nothing else, in non-decreasing order of
\* date.
C20_BreaksConcatenatedSorted ==
    (dec.pc = "done" /\ dec.op = "detect_structural_breaks"
        /\ dec.outcome = "returned") =>
        /\ Len(dec.breaks) = Len(Concatenation)
        /\ \A i \in 1..Len(Concatenation) :
              Occurrences(dec.breaks, Concatenation[i]) =
              Occurrences(Concatenation, Concatenation[i])
        /\ \A i \in 1..(Len(dec.breaks) - 1) :
              dec.breaks[i][1] <= dec.breaks[i + 1][1]

\* breaks were returned of which two of different types share a date, and
\* the detectors' outputs put together were not in date order
C20_Witness ==
    /\ dec.pc = "done" /\ dec.op = "detect_structural_breaks"
    /\ dec.outcome = "returned"
    /\ \E i, j \in 1..Len(dec.breaks) :
          /\ i # j
          /\ dec.breaks[i][1] = dec.breaks[j][1]
          /\ dec.breaks[i][2] # dec.breaks[j][2]
    /\ dec.breaks # Concatenation

----------------------------------------------------------------------------
(* OutlierDetector: claims *)

\* the calls made so far on the series at hand
CallsMade ==
    IF detector.pc = "once" THEN {detector.first}
    ELSE IF detector.pc = "twice" THEN {detector.first, detector.second}
    ELSE {}

ParallelLists(r) ==
    /\ Len(r.outlier_indices) = r.total_outliers
    /\ Len(r.outlier_scores) = r.total_outliers
    /\ Len(r.outlier_types) = r.total_outliers
    /\ Len(r.outlier_dates) = r.total_outliers
    /\ Len(r.outlier_values) = r.total_outliers
    /\ \A i, j \in 1..Len(r.outlier_indices) :
          i # j => r.outlier_indices[i] # r.outlier_indices[j]

\* C17: for every method and every series (of distinct timestamps), the
\* five lists of a returned OutlierResult have the length total_outliers, and
\* no position is listed twice.
C17_ParallelListsAgree ==
    \A c \in CallsMade : c.outcome = "returned" => ParallelLists(c.result)

\* the domain-based method returned daily spikes and volatility spikes
C17_Witness ==
    /\ detector.pc = "once"
    /\ detector.method = "domain_based"
    /\ detector.first.outcome = "returned"
    /\ \E i, j \in 1..Len(detector.first.result.outlier_types) :
          /\ detector.first.result.outlier_types[i] = "daily_spike"
          /\ detector.first.result.outlier_types[j] = "volatility_spike"

\* C18 (as claimed): for one series and one method, a call with one of
\* contamination, z_threshold and min_votes raised and the others unchanged
\* reports at least as many outliers as the call before it.
C18_RaisingNeverDecreases ==
    (detector.pc = "twice" /\ detector.second.outcome = "returned") =>
        detector.first.result.total_outliers <= detector.second.result.total_outliers

\* C19: detect_outliers on a series of fewer than 30 non-missing observations
\* returns an empty OutlierResult and raises nothing, whatever the method
\* argument.
C19_ShortSeriesGivesEmptyResult ==
    NonMissing(detector.series) < OutlierMinLength =>
        \A c \in CallsMade :
            /\ c.outcome = "returned"
            /\ c.result.outlier_indices = <<>>
            /\ c.result.outlier_scores = <<>>
            /\ c.result.outlier_types = <<>>
            /\ c.result.outlier_dates = <<>>
            /\ c.result.outlier_values = <<>>
            /\ c.result.total_outliers = 0
            /\ c.result.outlier_percentage = RInt(0)

\* a series of 29 observations and a missing value was handed in with a
\* method the detector does not know, and the call returned
C19_Witness ==
    /\ detector.pc = "once"
    /\ Len(detector.series.values) = OutlierMinLength
    /\ NonMissing(detector.series) = OutlierMinLength - 1
    /\ detector.method \notin DetectionMethods
    /\ detector.first.outcome = "returned"

----------------------------------------------------------------------------
(* ImprovedSevenDayForecaster: claims *)

\* the last observation the forecast of origin i is made from
LastTrainingRow(i) == Len(backtest.historical_df) - backtest.historical_days + i - 1

\* the origins of the call whose row seven steps after the last training row
\* exists in the frame
VerifiableOrigins ==
    IF backtest.historical_df = NoneObj THEN {}
    ELSE {i \in 0..(backtest.historical_days - 1) :
            /\ LastTrainingRow(i) >= 0
            /\ LastTrainingRow(i) + SevenDays < Len(backtest.historical_df)}

\* C21: every origin whose row seven steps ahead does not exist is skipped
\* without error, the metrics are computed over exactly the remaining
\* origins, and the result is empty only when no origin is verifiable.
C21_SkipsOnlyUnverifiableOrigins ==
    backtest.pc = "done" =>
        /\ backtest.outcome = "returned"
        /\ backtest.result = EmptyMetrics => VerifiableOrigins = {}
        /\ backtest.result # EmptyMetrics =>
             /\ {backtest.origins[k].i : k \in {j \in 1..Len(backtest.origins) :
                   backtest.origins[j].kind = "sample"}} = VerifiableOrigins
             /\ backtest.result.sample_size = Cardinality(VerifiableOrigins)

\* C26: the forecast made from the rows up to and including row t is scored
\* against the actual value of row t + 7.
C26_ScoredSevenStepsAhead ==
    backtest.pc = "done" =>
        \A k \in 1..Len(backtest.origins) :
            backtest.origins[k].kind = "sample" =>
                backtest.origins[k].actual_idx = backtest.origins[k].current_row + SevenDays

\* C27: for every simulated origin the rows handed to the trend and
\* volatility computation are strictly earlier than the scored row, and
\* every row read lies inside the frame; no call fails on a row index.
C27_NoLookAhead ==
    backtest.pc = "done" =>
        /\ backtest.outcome = "returned"
        /\ \A k \in 1..Len(backtest.origins) :
            LET o == backtest.origins[k]
            IN  o.kind = "sample" =>
                  /\ \A r \in o.past_rows : r < o.actual_idx
                  /\ o.past_rows \subseteq 0..(Len(backtest.historical_df) - 1)
                  /\ o.current_row \in o.past_rows
                  /\ o.actual_idx \in 0..(Len(backtest.historical_df) - 1)

\* C27 witness: a call that scored several origins, one of them with a
\* fitted trend over a full window
C27_Witness ==
    /\ backtest.pc = "done"
    /\ backtest.result # EmptyMetrics
    /\ backtest.result.sample_size >= 2
    /\ \E k \in 1..Len(backtest.origins) :
         /\ backtest.origins[k].kind = "sample"
         /\ Cardinality(backtest.origins[k].past_rows) >= TrendWindow
         /\ backtest.origins[k].predicted_price # backtest.origins[k].actual_price
    /\ \E k \in 1..Len(backtest.origins) : backtest.origins[k].kind = "skipped"

----------------------------------------------------------------------------
(* Units of work on one forecaster: claims *)

\* C22: a unit neither reads nor writes state another unit writes, so under
\* any interleaving of two (region, fuel-type) units on one forecaster
\* instance each unit reports what it reports when it runs alone.
C22_UnitsDoNotInterfere ==
    \A k \in 1..2 : units[k].pc = "done" => units[k].report = units[k].alone

----------------------------------------------------------------------------
(* The break detectors: claims *)

\* C23: any two level-shift breaks are at least min_segment_length positions
\* apart, none lies below position min_segment_length, and both
\* accumulators are zero at every reported position.
C23_CusumBreaksKeepTheirDistance ==
    (scan.pc = "done" /\ scan.method = "cusum") =>
        \A j \in 1..Len(scan.breaks) :
            /\ scan.breaks[j].position >= scan.min_segment_length
            /\ scan.cusum_pos[scan.breaks[j].position + 1] = RInt(0)
            /\ scan.cusum_neg[scan.breaks[j].position + 1] = RInt(0)
            /\ \A k \in 1..Len(scan.breaks) :
                 j < k => scan.breaks[k].position - scan.breaks[j].position
                              >= scan.min_segment_length

\* C30: of two variance-change breaks, or two trend-change breaks, of one
\* series the one with the strictly larger change rate has the strictly
\* larger significance.
C30_SignificanceGrowsWithChange ==
    (scan.pc = "done" /\ scan.method \in {"variance", "trend"}) =>
        \A j \in 1..Len(scan.breaks), k \in 1..Len(scan.breaks) :
            RLess(scan.breaks[j].change_rate, scan.breaks[k].change_rate)
                => RLess(scan.breaks[j].significance, scan.breaks[k].significance)

----------------------------------------------------------------------------
(* OutlierDetector, domain rules and ensemble: claims *)

\* the observations detect_outliers hands to the method
CleanValues == Dropna(detector.series).values

\* the day-over-day change of row i (from 1) is above the 20% of the
\* supply-disruption rule
AboveDisruption(i) ==
    /\ i > 1
    /\ RLess(SupplyDisruptionThreshold, PctChangeAbs(CleanValues)[i])

\* the maximal runs <<first row, last row>> of three or more such changes
DisruptionRuns ==
    {run \in (2..Len(CleanValues)) \X (2..Len(CleanValues)) :
        /\ run[2] - run[1] + 1 >= ConsecutiveDays
        /\ \A i \in run[1]..run[2] : AboveDisruption(i)
        /\ ~AboveDisruption(run[1] - 1)
        /\ run[2] = Len(CleanValues) \/ ~AboveDisruption(run[2] + 1)}

\* C24: for every maximal run of three or more consecutive changes above 20%
\* the domain-rule method reports exactly one outlier of type
\* supply_disruption, at the position of the largest change of the run, also
\* when the run reaches the last observation.
C24_OneDisruptionPerRun ==
    (detector.pc = "once" /\ detector.method = "domain_based"
        /\ Len(CleanValues) >= OutlierMinLength) =>
        /\ detector.first.outcome = "returned"
        /\ \A run \in DisruptionRuns :
             LET r == detector.first.result
                 reported == {k \in 1..Len(r.outlier_indices) :
                                 /\ r.outlier_types[k] = "supply_disruption"
                                 /\ r.outlier_indices[k] + 1 \in run[1]..run[2]}
             IN  /\ Cardinality(reported) = 1
                 /\ \A k \in reported : \A i \in run[1]..run[2] :
                      RLeq(PctChangeAbs(CleanValues)[i],
                           PctChangeAbs(CleanValues)[r.outlier_indices[k] + 1])

\* what the three methods report on the observations of the call, in the
\* order iso, stat, domain
MethodResults(c) ==
    LET clean == Dropna(detector.series)
    IN  <<IsolationForestDetection(clean, c.contamination, detector.lib),
          StatisticalDetection(clean, DefaultZThreshold),
          DomainBasedDetection(clean)>>

\* the methods, in that order, that report a position
Reporters(results, idx) ==
    SelectSeq(<<1, 2, 3>>,
              LAMBDA m : \E k \in 1..Len(results[m].outlier_indices) :
                            results[m].outlier_indices[k] = idx)

\* what a method that reports a position says about it: score and tag
ReportOf(results, m, idx) ==
    LET k == CHOOSE k \in 1..Len(results[m].outlier_indices) :
                 results[m].outlier_indices[k] = idx
    IN  [score |-> results[m].outlier_scores[k],
         tag |-> <<MethodTags[m], results[m].outlier_types[k]>>]

\* the ensemble result of a call keeps exactly the positions that at least
\* 'needed' methods report, once each, with the mean of the reporters' scores
\* and one tag per reporter
EnsembleKeeps(c, needed) ==
    \A results \in {MethodResults(c)} :
    \A idx \in 0..(Len(CleanValues) - 1) :
        LET ms == Reporters(results, idx)
            places == {k \in 1..Len(c.result.outlier_indices) :
                          c.result.outlier_indices[k] = idx}
        IN  /\ Cardinality(places) = (IF Len(ms) >= needed THEN 1 ELSE 0)
            /\ \A k \in places :
                 /\ c.result.outlier_scores[k] =
                        <<"mean", [j \in 1..Len(ms) |-> ReportOf(results, ms[j], idx).score]>>
                 /\ c.result.outlier_types[k] =
                        [j \in 1..Len(ms) |-> ReportOf(results, ms[j], idx).tag]

\* the returned ensemble calls on 30 observations or more
EnsembleCalls ==
    IF detector.method = "ensemble" /\ Len(CleanValues) >= OutlierMinLength
    THEN {c \in CallsMade : c.outcome = "returned"}
    ELSE {}

----------------------------------------------------------------------------
(* DataPreprocessor scaling: claims *)

\* C28 (as claimed): inverse_transform of a column's scaled values gives the
\* column's original values back, for every column _scale_data scaled, and
\* the scaler recorded for a column is the one fitted on that column, whatever
\* other columns were scaled in the call.
C28_ScalingRoundTrips ==
    /\ (rescale.pc = "inverted" /\ rescale.column_name \in DOMAIN rescale.scaled) =>
          /\ rescale.restored.outcome = "returned"
          /\ rescale.restored.values = rescale.data[rescale.column_name]
    /\ \A col \in DOMAIN rescale.scalers :
          rescale.objects[rescale.scalers[col].scaler] =
              FitScaler(rescale.scalers[col].type, rescale.data[col])

----------------------------------------------------------------------------
(* RegionalAccuracyCalculator: claims *)

\* the days for which prices were entered for a region itself
DaysEnteredFor(region) == {day \in ForecastDays : <<day, region>> \in DOMAIN calc.entered}

\* C29 (as claimed): after any sequence of update_actual_data calls the
\* summary of a region counts as available_days the days for which prices
\* were entered for that region, and every daily_accuracy entry carries the
\* prices entered for the region; an update with an unknown date or region
\* returns False and leaves actual_data as it was.
C29_SummaryOfOwnActuals ==
    /\ calc.last.op = "summary" =>
          /\ calc.last.ret.available_days = Cardinality(DaysEnteredFor(calc.last.region))
          /\ \A day \in DOMAIN calc.last.ret.daily_accuracy :
                /\ day \in DaysEnteredFor(calc.last.region)
                /\ calc.last.ret.daily_accuracy[day].gasoline_actual =
                       calc.entered[<<day, calc.last.region>>][1]
                /\ calc.last.ret.daily_accuracy[day].diesel_actual =
                       calc.entered[<<day, calc.last.region>>][2]
    /\ (/\ calc.last.op = "update"
        /\ calc.last.date \notin ForecastDays \/ calc.last.region \notin RegionCodes) =>
          /\ calc.last.ret = FALSE
          /\ calc.actual_data = calc.last.before

============================================================================
